---- MODULE Spec2Model ----
(***************************************************************************)
(* Model of the jay J1939 library: the network directory                   *)
(* (include/jay/network.hpp), the address claiming state machine           *)
(* (include/jay/address_state_machine.hpp) and its timed wrapper           *)
(* (include/jay/address_manager.hpp, include/jay/network_manager.hpp).     *)
(*                                                                         *)
(* Scaling.  The address space 0..253 / 254 / 255 is scaled to             *)
(* 0..MaxUnicast / MaxUnicast+1 / MaxUnicast+2, and the 64 bit NAMEs to    *)
(* 0..2*(MaxId+1)-1, whose upper half carries the self configurable bit    *)
(* (the most significant bit of the NAME).  Every comparison the code      *)
(* makes between addresses and between NAMEs is kept as written.           *)
(***************************************************************************)
EXTENDS Integers, Sequences, FiniteSets, TLC

\* ------------------------------------------------------------------ bounds

\* Highest unicast address of the scaled address space.
MaxUnicast == 1

\* Highest identity number; there are 2*(MaxId+1) NAMEs.
MaxId == 1

\* Most handlers the environment keeps posted on the executor at one time.
MaxQueue == 1

\* --------------------------------------------------------------- constants

J1939_MAX_UNICAST_ADDR == MaxUnicast

J1939_IDLE_ADDR == J1939_MAX_UNICAST_ADDR + 1

J1939_NO_ADDR == J1939_IDLE_ADDR + 1

\* The self configurable address bit of a NAME (its most significant bit).
slf_cfg_addr_mask == MaxId + 1

Names == 0 .. (2 * slf_cfg_addr_mask - 1)

Unicast == 0 .. J1939_MAX_UNICAST_ADDR

Addresses == 0 .. J1939_NO_ADDR

\* A key that is not in name_address_map_ / address_name_map_.
NotIn == J1939_NO_ADDR + 1

NoName == 2 * slf_cfg_addr_mask

self_config_address(name) == IF name >= slf_cfg_addr_mask THEN 1 ELSE 0

has_priority_over(name, other) == name < other

\* ------------------------------------------------------------------- state

VARIABLES
  name_address_map_,   \* network: NAME -> address, NotIn when the NAME is no key
  address_name_map_,   \* network: address -> NAME, NoName when the address is no key
  name_,               \* address_state_machine: the local NAME
  state,               \* address_state_machine: the current state
  claiming,            \* st_claiming::address
  has_address,         \* st_has_address::address
  queue,               \* io_context: the handlers posted and not yet run, in order
  timer,               \* timeout_timer_: the pending wait, "none" without one
  out,                 \* what the last step gave to the callbacks, in order
  scen,                \* the run since the last start_address_claim, while undisturbed
  last,                \* the last operation and its arguments
  sessions_,           \* transport_protocol: per node, the session table, key -> session
  wire,                \* per node, the frames on their way to it, oldest first
  transfer,            \* the transfer followed on the link: what was sent, what was delivered
  conn,                \* j1939_connection: local_name_, target_name_ and the address of bus_
  threads,             \* per thread, the network operation it is in and how far it has come
  pair                 \* a second claimer on the same directory, and the claim frames in flight

netvars == <<name_address_map_, address_name_map_>>

smvars == <<name_, state, claiming, has_address, queue, timer, out, scen>>

\* The claimer's own state, as the transport protocol leaves it.
amvars == <<name_, state, claiming, has_address, queue, timer, scen>>

tpvars == <<sessions_, wire, transfer, conn, threads, pair>>

vars == <<name_address_map_, address_name_map_, name_, state, claiming, has_address,
          queue, timer, out, scen, last, sessions_, wire, transfer, conn, threads, pair>>

\* The two transport_protocol objects of the model, and the address of each one's bus.
Nodes == {"A", "B"}

bus_source_address(node) == IF node = "A" THEN 0 ELSE 1

\* A key of sessions_: (src, dst).
Keys == (0 .. J1939_NO_ADDR) \X (0 .. J1939_NO_ADDR)

make_key(src, dst) == <<src, dst>>

\* The value of a key that is not in sessions_.
NoSession == [dir |-> "none"]

NoSessions == [key \in Keys |-> NoSession]

NoTransfer == [on |-> FALSE]

\* A j1939_connection constructed without NAMEs; NoName stands for std::nullopt.
NoConn == [local_name_ |-> NoName, target_name_ |-> NoName, src_addr_ |-> J1939_IDLE_ADDR]

\* The threads that call into one network object.
Threads == {"t1", "t2"}

\* A thread outside every operation of the network.
NoCall == [pc |-> "idle", op |-> "none", name |-> NoName, addr |-> NotIn,
           d0 |-> <<>>, returned |-> FALSE, tmp |-> NotIn]

NoThreads == [t \in Threads |-> NoCall]

\* No second claimer.
NoPair == [on |-> FALSE]

\* No transport session, nothing in flight, no thread inside the directory, one claimer.
TpIdle ==
  /\ sessions_ = [node \in Nodes |-> NoSessions]
  /\ wire = [node \in Nodes |-> <<>>]
  /\ transfer = NoTransfer
  /\ conn = NoConn
  /\ threads = NoThreads
  /\ pair = NoPair

\* A directory value: both maps.
Net(na, an) == [na |-> na, an |-> an]

EmptyNet == Net([n \in Names |-> NotIn], [a \in Unicast |-> NoName])

\* std::unordered_map::erase(key) on address_name_map_: no effect on a missing key.
map_erase(an, address) ==
  IF address \in Unicast THEN [an EXCEPT ![address] = NoName] ELSE an

\* ------------------------------------------------------- network operations

\* network::try_address_claim (insert): the directory afterwards and the result.
try_address_claim(d, name, address) ==
  LET known == d.na[name] # NotIn
      old_address == d.na[name]
      na1 == IF known THEN d.na ELSE [d.na EXCEPT ![name] = J1939_IDLE_ADDR]
      an1 == IF known /\ address # old_address THEN map_erase(d.an, old_address) ELSE d.an
  IN  IF known /\ address = old_address
        THEN [net |-> d, ret |-> TRUE, new_name |-> FALSE]
      ELSE IF address > J1939_MAX_UNICAST_ADDR
        THEN [net |-> Net([na1 EXCEPT ![name] = J1939_IDLE_ADDR], an1),
              ret |-> TRUE, new_name |-> ~known]
      ELSE IF an1[address] = NoName
        THEN [net |-> Net([na1 EXCEPT ![name] = address], [an1 EXCEPT ![address] = name]),
              ret |-> TRUE, new_name |-> ~known]
      ELSE IF has_priority_over(name, an1[address])
        THEN [net |-> Net([na1 EXCEPT ![an1[address]] = J1939_IDLE_ADDR, ![name] = address],
                          [an1 EXCEPT ![address] = name]),
              ret |-> TRUE, new_name |-> ~known]
      ELSE [net |-> Net(na1, an1), ret |-> FALSE, new_name |-> ~known]

\* network::release(name)
release(d, name) ==
  IF d.na[name] = NotIn THEN d
  ELSE Net([d.na EXCEPT ![name] = J1939_IDLE_ADDR], map_erase(d.an, d.na[name]))

\* network::erase(name) (remove)
erase(d, name) ==
  IF d.na[name] = NotIn THEN d
  ELSE Net([d.na EXCEPT ![name] = NotIn], map_erase(d.an, d.na[name]))

\* network::available(address)
available(d, address) ==
  IF address > J1939_MAX_UNICAST_ADDR THEN FALSE ELSE d.an[address] = NoName

\* network::claimable(address, name)
claimable(d, address, name) ==
  IF address > J1939_MAX_UNICAST_ADDR THEN FALSE
  ELSE IF d.an[address] # NoName THEN has_priority_over(name, d.an[address])
  ELSE TRUE

\* A directory in which no NAME is ever found.
in_network_never(d, name) == FALSE

\* network::in_network(name)
in_network(d, name) == d.na[name] # NotIn

\* network::find_name(address) (get_name): NoName stands for std::nullopt.
find_name(d, address) == IF address \in Unicast THEN d.an[address] ELSE NoName

\* network::find_address(name) (get_address): J1939_NO_ADDR for a NAME not in the network.
get_address(d, name) == IF d.na[name] = NotIn THEN J1939_NO_ADDR ELSE d.na[name]

\* network::address_size()
address_size(d) == Cardinality({a \in Unicast : d.an[a] # NoName})

\* network::is_full() (full)
is_full(d) == address_size(d) > J1939_MAX_UNICAST_ADDR

\* A search that accepts the start address or nothing.
search_start_only(d, name, start_address, end_address, force) ==
  IF start_address < end_address /\ available(d, start_address)
    THEN start_address
    ELSE J1939_NO_ADDR

\* network::search: the first address in start_address .. end_address-1 that is no key of
\* address_name_map_ or, with force, held by a NAME the searcher has priority over.
RECURSIVE search(_, _, _, _, _)
search(d, name, start_address, end_address, force) ==
  IF ~(start_address < end_address) THEN J1939_NO_ADDR
  ELSE IF d.an[start_address] = NoName THEN start_address
  ELSE IF has_priority_over(name, d.an[start_address]) /\ force THEN start_address
  ELSE search(d, name, start_address + 1, end_address, force)

\* std::clamp(v, lo, hi)
clamp(v, lo, hi) == IF v < lo THEN lo ELSE IF hi < v THEN hi ELSE v

\* network::find_available_address(name, preffed_address, force)
find_available_address(d, name, preffed_address, force) ==
  LET scoped_preffed_address == clamp(preffed_address, 0, J1939_MAX_UNICAST_ADDR)
      address == search(d, name, scoped_preffed_address, J1939_IDLE_ADDR, force)
  IN  IF address = J1939_IDLE_ADDR
        THEN search(d, name, 0, scoped_preffed_address, force)
        ELSE address

\* The directory as the program holds it.
net == Net(name_address_map_, address_name_map_)

\* ------------------------------------------------- directory specification

NoOp == [op |-> "none", name |-> NoName, addr |-> NotIn, ret |-> NotIn]

\* No run of the claimer is being followed.
NoScen == [on |-> FALSE]

InitNetwork ==
  /\ name_address_map_ = EmptyNet.na
  /\ address_name_map_ = EmptyNet.an
  /\ name_ = 0
  /\ state = "st_no_address"
  /\ claiming = J1939_NO_ADDR
  /\ has_address = J1939_NO_ADDR
  /\ queue = <<>>
  /\ timer = "none"
  /\ out = <<>>
  /\ scen = NoScen
  /\ last = NoOp
  /\ TpIdle

\* insert(name, address), any NAME and any address.
Insert(name, address) ==
  LET r == try_address_claim(net, name, address) IN
  /\ name_address_map_' = r.net.na
  /\ address_name_map_' = r.net.an
  /\ last' = [op |-> "insert", name |-> name, addr |-> address,
              ret |-> IF r.ret THEN 1 ELSE 0]
  /\ UNCHANGED <<smvars, tpvars>>

Release(name) ==
  LET d == release(net, name) IN
  /\ name_address_map_' = d.na
  /\ address_name_map_' = d.an
  /\ last' = [NoOp EXCEPT !.op = "release", !.name = name]
  /\ UNCHANGED <<smvars, tpvars>>

Remove(name) ==
  LET d == erase(net, name) IN
  /\ name_address_map_' = d.na
  /\ address_name_map_' = d.an
  /\ last' = [NoOp EXCEPT !.op = "remove", !.name = name]
  /\ UNCHANGED <<smvars, tpvars>>

\* find_address(name, preferred): a query, the directory is left alone.
Find(name, preffed_address) ==
  /\ UNCHANGED <<netvars, smvars, tpvars>>
  /\ last' = [NoOp EXCEPT !.op = "find", !.name = name, !.addr = preffed_address,
                          !.ret = find_available_address(net, name, preffed_address, FALSE)]

NextNetwork ==
  \/ \E name \in Names, address \in Addresses : Insert(name, address)
  \/ \E name \in Names : Release(name)
  \/ \E name \in Names : Remove(name)
  \/ \E name \in Names, address \in Addresses : Find(name, address)

SpecNetwork == InitNetwork /\ [][NextNetwork]_vars

\* ------------------------------------------------------ directory claims

\* C1: after any sequence of insert, release and remove the two maps agree: a NAME
\* stored at a unicast address A is the NAME get_name(A) returns, an occupied address A
\* is the address get_address returns for its NAME, and no two NAMEs hold one address.
C1_Reciprocity ==
  /\ \A n \in Names :
        get_address(net, n) \in Unicast => find_name(net, get_address(net, n)) = n
  /\ \A a \in Unicast :
        find_name(net, a) # NoName => get_address(net, find_name(net, a)) = a
  /\ \A n, m \in Names :
        (n # m /\ get_address(net, n) \in Unicast) => get_address(net, n) # get_address(net, m)

\* C2: insert(name, addr) with addr in 0..253 held by another NAME `other`, name < other,
\* returns Claimed; afterwards name holds addr in both maps, other is in the directory at
\* IDLE and the number of occupied addresses has not grown.
C2_PriorityInsert ==
  [][\A name \in Names, addr \in Unicast :
       LET other == find_name(net, addr) IN
       (/\ last'.op = "insert" /\ last'.name = name /\ last'.addr = addr
        /\ other # NoName /\ other # name /\ name < other)
       => (/\ last'.ret = 1
           /\ get_address(net', name) = addr
           /\ find_name(net', addr) = name
           /\ get_address(net', other) = J1939_IDLE_ADDR
           /\ address_size(net') <= address_size(net))]_vars

\* C3: insert(name, addr) with addr held by another NAME `other`, other < name, returns
\* Rejected; the holder is untouched and name is afterwards in the directory at IDLE,
\* whatever name's entry was before (unknown, IDLE or another address).
C3_RejectedInsert ==
  [][\A name \in Names, addr \in Unicast :
       LET other == find_name(net, addr) IN
       (/\ last'.op = "insert" /\ last'.name = name /\ last'.addr = addr
        /\ other # NoName /\ other # name /\ other < name)
       => (/\ last'.ret = 0
           /\ find_name(net', addr) = other
           /\ get_address(net', name) = J1939_IDLE_ADDR)]_vars

\* C4 (its last sentence): find_address(name, preferred) finds an address when every
\* slot from preferred to 253 is taken and a slot below preferred is free.
C4_FreeSlotBelowFound ==
  (/\ last.op = "find" /\ last.addr \in Unicast
   /\ \A a \in last.addr .. J1939_MAX_UNICAST_ADDR : find_name(net, a) # NoName
   /\ \E a \in 0 .. (last.addr - 1) : find_name(net, a) = NoName)
  => last.ret \in Unicast


\* ------------------------------------------------------------------ frames

\* frame::make_address_claim(name, address)
make_address_claim(name, address) ==
  [pf |-> "PF_ADDRESS_CLAIM", ps |-> J1939_NO_ADDR, sa |-> address, payload |-> name]

\* frame::make_cannot_claim(name)
make_cannot_claim(name) ==
  [pf |-> "PF_ADDRESS_CLAIM", ps |-> J1939_NO_ADDR, sa |-> J1939_IDLE_ADDR, payload |-> name]

\* frame::make_address_request(PS)
make_address_request(PS) ==
  [pf |-> "PF_REQUEST", ps |-> PS, sa |-> J1939_IDLE_ADDR, payload |-> NoName]

\* ------------------------------------------------- address_manager callbacks

\* The machine, its directory, its timer and the executor taken as one value; a step
\* starts with nothing given to the callbacks yet.
Machine ==
  [name |-> name_, state |-> state, claiming |-> claiming, has_address |-> has_address,
   net |-> net, timer |-> timer, queue |-> queue, out |-> <<>>]

\* timeout_timer_.expires_from_now(..) followed by async_wait(handler): a wait still
\* pending is cancelled, which posts its handler with operation_aborted.
arm(m, handler) ==
  LET m1 == IF m.timer # "none"
              THEN [m EXCEPT !.queue = Append(@, <<m.timer, TRUE>>)]
              ELSE m
  IN  [m1 EXCEPT !.timer = handler]

\* address_manager::on_address
on_address(m, name, address) ==
  [m EXCEPT !.net = try_address_claim(m.net, name, address).net,
            !.out = Append(@, <<"on_address", name, address>>)]

\* address_manager::on_address_loss
on_address_loss(m, name) ==
  [m EXCEPT !.net = release(m.net, name),
            !.out = Append(@, <<"on_lose_address", name>>)]

\* address_manager::on_begin_claiming
on_begin_claiming(m) == arm(m, "on_claim_timout")

\* address_manager::on_address_claim
on_address_claim(m, name, address) ==
  [m EXCEPT !.out = Append(@, <<"on_frame", make_address_claim(name, address)>>)]

\* address_manager::on_cannot_claim
on_cannot_claim(m, name) == arm(m, "on_random_timeout")

\* The on_request callback of the state machine: the address request goes out as a frame.
on_request(m) ==
  [m EXCEPT !.out = Append(@, <<"on_frame", make_address_request(J1939_NO_ADDR)>>)]

\* ------------------------------------------ address_state_machine: guards

\* A guard that never sees the directory as full.
no_address_available_never(m) == FALSE

no_address_available(m) == is_full(m.net)

address_available(m) == ~is_full(m.net)

address_priority(m, name) == m.name < name

address_conflict(l_address, r_address) == l_address = r_address

address_change_required(m, name, l_address, r_address) ==
  address_conflict(l_address, r_address) /\ ~address_priority(m, name)

retry_allowed(m) == self_config_address(m.name) = 1 /\ address_available(m)

retry_disallowed(m) == ~retry_allowed(m)

\* An ev_address_claim is <<"ev_address_claim", name, address>>.
claiming_priority(m, ev) ==
  address_conflict(m.claiming, ev[3]) /\ address_priority(m, ev[2])

claiming_loss(m, ev) ==
  address_change_required(m, ev[2], ev[3], m.claiming) /\ address_available(m)

claiming_failure(m, ev) ==
  address_change_required(m, ev[2], ev[3], m.claiming) /\ no_address_available(m)

\* A guard that never lets the holder defend its address.
claimed_priority_never(m, ev) == FALSE

claimed_priority(m, ev) ==
  address_conflict(m.has_address, ev[3]) /\ address_priority(m, ev[2])

\* A claimer that never gives way in Has-Address.
claimed_loss_never(m, ev) == FALSE

claimed_loss(m, ev) ==
  address_change_required(m, ev[2], ev[3], m.has_address) /\ address_available(m)

claimed_failure(m, ev) ==
  address_change_required(m, ev[2], ev[3], m.has_address) /\ no_address_available(m)

valid_address(m) ==
  claimable(m.net, m.claiming, m.name) \/ get_address(m.net, m.name) < J1939_IDLE_ADDR

no_valid_address(m) ==
  ~claimable(m.net, m.claiming, m.name) /\ get_address(m.net, m.name) = J1939_IDLE_ADDR

\* An ev_address_request is <<"ev_address_request", destination_address>>.
is_global_address_req(ev) == ev[2] = J1939_NO_ADDR

\* A guard that lets every request through, whatever its destination.
valid_claiming_request_any(m, ev) == TRUE

valid_claiming_request(m, ev) == ev[2] = m.claiming \/ is_global_address_req(ev)

valid_address_request(m, ev) == ev[2] = m.has_address \/ is_global_address_req(ev)

\* ----------------------------------------- address_state_machine: actions

\* An ev_start_claim is <<"ev_start_claim", pref_address>>.
set_pref_address(m, ev) == [m EXCEPT !.claiming = ev[2]]

\* The claimed address is not taken over from the candidate.
set_claimed_address_skipped(m) == m

set_claimed_address(m) == [m EXCEPT !.has_address = m.claiming]

set_claiming_address(m) == [m EXCEPT !.claiming = m.has_address]

send_address_claim(m, address) == on_address_claim(m, m.name, address)

send_request(m) == on_request(m)

\* A claim sent for the candidate as it stands, without a search.
claim_address_unsearched(m) == send_address_claim(m, m.claiming)

\* network.find_address(m.name, claiming.address)
claim_address(m) ==
  LET address == find_available_address(m.net, m.name, m.claiming, FALSE)
  IN  send_address_claim([m EXCEPT !.claiming = address], address)

begin_claiming_address(m) == claim_address(on_begin_claiming(m))

send_claiming(m) == send_address_claim(m, m.claiming)

send_claimed(m) == send_address_claim(m, m.has_address)

send_cannot_claim(m) == on_cannot_claim(m, m.name)

notify_address_gain(m) == on_address(m, m.name, m.has_address)

notify_address_loss(m) == on_address_loss(m, m.name)


\* ------------------------------- address_state_machine: transition table

\* on_entry / on_exit rows of the table; st is the state being entered or left.
on_entry(m, st) ==
  LET m1 == [m EXCEPT !.state = st]
  IN  IF st = "st_no_address" THEN (IF address_available(m1) THEN send_request(m1) ELSE m1)
      ELSE IF st = "st_claiming" THEN begin_claiming_address(m1)
      ELSE IF st = "st_has_address" THEN notify_address_gain(m1)
      ELSE send_cannot_claim(m1)

\* Leaving a state without telling anyone.
on_exit_silent(m) == m

on_exit(m) == IF m.state = "st_has_address" THEN notify_address_loss(m) ELSE m

\* The rows of one source state, tried in table order for the event's type; a row
\* with a target state runs on_exit, the row's action, then on_entry.
no_address_rows(m, ev) ==
  IF ev[1] = "ev_address_request" /\ is_global_address_req(ev) THEN send_cannot_claim(m)
  ELSE IF ev[1] = "ev_start_claim" /\ address_available(m)
    THEN on_entry(set_pref_address(on_exit(m), ev), "st_claiming")
  ELSE IF ev[1] = "ev_start_claim" /\ no_address_available(m) THEN send_cannot_claim(m)
  ELSE m

claiming_rows(m, ev) ==
  IF ev[1] = "ev_address_claim" /\ claiming_priority(m, ev) THEN send_claiming(m)
  ELSE IF ev[1] = "ev_address_claim" /\ claiming_loss(m, ev) THEN begin_claiming_address(m)
  ELSE IF ev[1] = "ev_address_claim" /\ claiming_failure(m, ev)
    THEN on_entry(on_exit(m), "st_address_lost")
  ELSE IF ev[1] = "ev_timeout" /\ valid_address(m)
    THEN on_entry(set_claimed_address(on_exit(m)), "st_has_address")
  ELSE IF ev[1] = "ev_timeout" /\ no_valid_address(m)
    THEN on_entry(on_exit(m), "st_no_address")
  ELSE IF ev[1] = "ev_address_request" /\ valid_claiming_request(m, ev) THEN send_claiming(m)
  ELSE m

has_address_rows(m, ev) ==
  IF ev[1] = "ev_address_request" /\ valid_address_request(m, ev) THEN send_claimed(m)
  ELSE IF ev[1] = "ev_address_claim" /\ claimed_priority(m, ev) THEN send_claimed(m)
  ELSE IF ev[1] = "ev_address_claim" /\ claimed_loss(m, ev)
    THEN on_entry(set_claiming_address(on_exit(m)), "st_claiming")
  ELSE IF ev[1] = "ev_address_claim" /\ claimed_failure(m, ev)
    THEN on_entry(on_exit(m), "st_address_lost")
  ELSE m

\* Address-Lost handled with the rows of Claiming.
address_lost_rows_as_claiming(m, ev) == claiming_rows(m, ev)

\* ev_random_retry carries no address: set_pref_address is handed a
\* default-constructed ev_start_claim.  Nothing in address_manager posts this event,
\* so its two rows are never taken under Spec.
address_lost_rows(m, ev) ==
  IF ev[1] = "ev_address_request" /\ is_global_address_req(ev) THEN send_cannot_claim(m)
  ELSE IF ev[1] = "ev_random_retry" /\ retry_allowed(m)
    THEN on_entry(set_pref_address(on_exit(m), <<"ev_start_claim", 0>>), "st_claiming")
  ELSE IF ev[1] = "ev_random_retry" /\ retry_disallowed(m)
    THEN on_entry(send_cannot_claim(on_exit(m)), "st_no_address")
  ELSE m

process_event(m, ev) ==
  IF m.state = "st_no_address" THEN no_address_rows(m, ev)
  ELSE IF m.state = "st_claiming" THEN claiming_rows(m, ev)
  ELSE IF m.state = "st_has_address" THEN has_address_rows(m, ev)
  ELSE address_lost_rows(m, ev)


\* ------------------------------------------- address_manager: handlers

\* address_manager::on_claim_timout: the event is processed whatever the error code is.
on_claim_timout(m, aborted) == process_event(m, <<"ev_timeout">>)

\* address_manager::on_random_timeout: the frame goes out whatever the error code is.
on_random_timeout(m, aborted) ==
  [m EXCEPT !.out = Append(@, <<"on_frame", make_cannot_claim(m.name)>>)]

\* A handler on the io_context: a posted event, or the completion of a timer wait.
run_handler(m, h) ==
  IF h[1] = "post" THEN process_event(m, h[2])
  ELSE IF h[1] = "on_claim_timout" THEN on_claim_timout(m, h[2])
  ELSE on_random_timeout(m, h[2])

\* address_manager::address_claim / address_request / start_address_claim: boost::asio::post
post(q, ev) == Append(q, <<"post", ev>>)

\* ------------------------------------------------------------- claimer

LocalNames == {slf_cfg_addr_mask - 1, slf_cfg_addr_mask}

\* Source addresses of received claims: a unicast address, or 254 for a cannot-claim.
SourceAddresses == 0 .. J1939_IDLE_ADDR

\* Destinations of received frames: one unicast address, and global.
Destinations == {0, J1939_NO_ADDR}

Peers == Names \ {name_}

Commit(m) ==
  /\ state' = m.state
  /\ claiming' = m.claiming
  /\ has_address' = m.has_address
  /\ name_address_map_' = m.net.na
  /\ address_name_map_' = m.net.an
  /\ timer' = m.timer
  /\ queue' = m.queue
  /\ out' = m.out

\* What the callbacks were given since a start_address_claim made with nothing pending;
\* dropped at the next call or received frame.
Track == IF scen.on THEN [scen EXCEPT !.log = @ \o out'] ELSE scen

Init ==
  /\ name_address_map_ = EmptyNet.na
  /\ address_name_map_ = EmptyNet.an
  /\ name_ \in LocalNames
  /\ state = "st_no_address"
  /\ claiming = J1939_NO_ADDR
  /\ has_address = J1939_NO_ADDR
  /\ queue = <<>>
  /\ timer = "none"
  /\ out = <<>>
  /\ scen = NoScen
  /\ last = NoOp
  /\ TpIdle

\* A start_address_claim that posts the event whatever the state is.
start_address_claim_unguarded(preffered_address) ==
  /\ Len(queue) < MaxQueue
  /\ queue' = post(queue, <<"ev_start_claim", preffered_address>>)
  /\ out' = <<>>
  /\ scen' = NoScen
  /\ last' = [op |-> "start_address_claim"]
  /\ UNCHANGED <<netvars, name_, state, claiming, has_address, timer, tpvars>>

\* address_manager::start_address_claim: the call returns at once outside st_no_address.
StartAddressClaim(preffered_address) ==
  /\ Len(queue) < MaxQueue \/ state # "st_no_address"
  /\ queue' = IF state = "st_no_address"
                THEN post(queue, <<"ev_start_claim", preffered_address>>)
                ELSE queue
  /\ out' = <<>>
  /\ scen' = IF state = "st_no_address" /\ queue = <<>> /\ timer = "none"
               THEN [on |-> TRUE, p |-> preffered_address, net |-> net, log |-> <<>>]
               ELSE NoScen
  /\ last' = [op |-> "start_address_claim"]
  /\ UNCHANGED <<netvars, name_, state, claiming, has_address, timer, tpvars>>

\* network_manager::process of an address claim frame (on_frame_address_claim)
RecvClaim(name, pdu_specific, source_address) ==
  LET in == in_network(net, name)
      d == try_address_claim(net, name, source_address).net
      claim == <<"ev_address_claim", name, source_address>>
      routed == IF pdu_specific < J1939_IDLE_ADDR
                  THEN find_name(d, pdu_specific) = name_
                  ELSE TRUE
  IN  /\ Len(queue) < MaxQueue
      /\ name_address_map_' = d.na
      /\ address_name_map_' = d.an
      /\ out' = IF in THEN <<>> ELSE << <<"on_new_controller", name, source_address>> >>
      /\ queue' = IF routed THEN post(queue, claim) ELSE queue
      /\ scen' = NoScen
      /\ last' = [op |-> "process", pf |-> "PF_ADDRESS_CLAIM", name |-> name,
                   sa |-> source_address,
                   rejected |-> ~try_address_claim(net, name, source_address).ret]
      /\ UNCHANGED <<name_, state, claiming, has_address, timer, tpvars>>

\* network_manager::process of a request frame (on_frame_address_request)
RecvRequest(address) ==
  LET req == <<"ev_address_request", J1939_NO_ADDR>>
      routed == IF address < J1939_IDLE_ADDR
                  THEN find_name(net, address) = name_
                  ELSE TRUE
  IN  /\ Len(queue) < MaxQueue
      /\ queue' = IF routed THEN post(queue, req) ELSE queue
      /\ out' = <<>>
      /\ scen' = NoScen
      /\ last' = [op |-> "process", pf |-> "PF_REQUEST", rejected |-> FALSE]
      /\ UNCHANGED <<netvars, name_, state, claiming, has_address, timer, tpvars>>

\* address_manager::address_request: the event is posted as the caller made it.
AddressRequest(destination_address) ==
  /\ Len(queue) < MaxQueue
  /\ queue' = post(queue, <<"ev_address_request", destination_address>>)
  /\ out' = <<>>
  /\ scen' = NoScen
  /\ last' = [op |-> "address_request"]
  /\ UNCHANGED <<netvars, name_, state, claiming, has_address, timer, tpvars>>

\* The pending wait of timeout_timer_ completes: its handler is queued with no error.
TimerExpire ==
  /\ timer # "none"
  /\ queue' = Append(queue, <<timer, FALSE>>)
  /\ timer' = "none"
  /\ out' = <<>>
  /\ scen' = scen
  /\ last' = [op |-> "expire"]
  /\ UNCHANGED <<netvars, name_, state, claiming, has_address, tpvars>>

\* io_context::run takes the oldest handler and runs it to completion.
RunHandler ==
  /\ queue # <<>>
  /\ Commit(run_handler([Machine EXCEPT !.queue = Tail(queue)], Head(queue)))
  /\ scen' = Track
  /\ last' = [op |-> "run", h |-> Head(queue), from |-> state]
  /\ UNCHANGED <<name_, tpvars>>

Next ==
  \/ \E preffered_address \in Addresses : StartAddressClaim(preffered_address)
  \/ \E name \in Peers, pdu_specific \in Destinations, source_address \in SourceAddresses :
       RecvClaim(name, pdu_specific, source_address)
  \/ \E address \in Destinations : RecvRequest(address)
  \/ \E destination_address \in Unicast : AddressRequest(destination_address)
  \/ TimerExpire
  \/ RunHandler

Spec == Init /\ [][Next]_vars


\* --------------------------------------------------- claims on the claimer

\* Unicast addresses with a holder in directory d.
Occupied(d) == {a \in Unicast : find_name(d, a) # NoName}

\* The lowest unoccupied address of d from p upwards, 255 when there is none.
FirstUnoccupiedFrom(d, p) ==
  IF (p .. J1939_MAX_UNICAST_ADDR) \ Occupied(d) = {} THEN J1939_NO_ADDR
  ELSE CHOOSE a \in (p .. J1939_MAX_UNICAST_ADDR) \ Occupied(d) :
         \A b \in (p .. J1939_MAX_UNICAST_ADDR) \ Occupied(d) : a <= b

\* What the callbacks named cb were given since the tracked start_address_claim.
ScenOutputs(cb) == IF scen.on THEN SelectSeq(scen.log, LAMBDA o : o[1] = cb) ELSE <<>>

\* The frames sent since the tracked start_address_claim.
ScenFrames == ScenOutputs("on_frame")

\* Nothing is queued and no timer wait is pending.
Settled == queue = <<>> /\ timer = "none"

ScenSubstitute(q) ==
  /\ scen.on
  /\ scen.p \in Unicast
  /\ q \in Unicast
  /\ scen.p < q
  /\ q = FirstUnoccupiedFrom(scen.net, scen.p)
  /\ \A a \in scen.p .. (q - 1) : find_name(scen.net, a) < name_

\* C6: a claim started with preferred address p while p..q-1 are all held by
\* higher-priority NAMEs and q is free sends an address claim for q, and once the claim
\* timer has run out the directory gives q as the address of the local NAME.
C6_ClaimsNextFree ==
  \A q \in Unicast :
    ScenSubstitute(q) =>
      /\ state # "st_no_address" => ScenFrames # <<>>
      /\ ScenFrames # <<>> => ScenFrames[1] = <<"on_frame", make_address_claim(name_, q)>>
      /\ (Settled /\ ScenFrames # <<>>) => get_address(net, name_) = q

\* The claim timer has run out after a claim for a substitute address.
C6_Witness ==
  \E q \in Unicast :
    /\ ScenSubstitute(q)
    /\ Settled
    /\ last.op = "run"
    /\ last.h = <<"on_claim_timout", FALSE>>
    /\ get_address(net, name_) = q

\* C7: with no address of the directory occupied, start_address_claim(p), p unicast, in
\* No-Address and with no frame received sends exactly one frame, the address claim for p
\* carrying the local NAME; when the claim timer has run out the machine is in Has-Address
\* with address p, on_address was called once, and the directory gives p for the local NAME.
C7_SoloClaim ==
  (scen.on /\ scen.p \in Unicast /\ Occupied(scen.net) = {})
    => /\ Len(ScenFrames) <= 1
       /\ state # "st_no_address" =>
            ScenFrames = << <<"on_frame", make_address_claim(name_, scen.p)>> >>
       /\ state = "st_no_address" => scen.log = <<>>
       /\ (Settled /\ scen.log # <<>>) =>
            /\ state = "st_has_address"
            /\ has_address = scen.p
            /\ ScenOutputs("on_address") = << <<"on_address", name_, scen.p>> >>
            /\ get_address(net, name_) = scen.p

\* The claim timer has run out after a claim started on a directory with no address taken.
C7_Witness ==
  /\ scen.on
  /\ scen.p \in Unicast
  /\ Occupied(scen.net) = {}
  /\ Settled
  /\ state = "st_has_address"
  /\ Len(ScenFrames) = 1
  /\ last.op = "run"
  /\ last.h = <<"on_claim_timout", FALSE>>

\* C8: with every unicast address occupied, a StartClaim in No-Address sends one
\* cannot-claim frame (source address 254, payload the local NAME) and nothing else, the
\* machine stays out of Claiming, and the local NAME holds no unicast address.
C8_FullDirectory ==
  (scen.on /\ Occupied(scen.net) = Unicast)
    => /\ state = "st_no_address"
       /\ get_address(net, name_) \notin Unicast
       /\ Len(ScenFrames) <= 1
       /\ \A i \in 1 .. Len(ScenFrames) :
            ScenFrames[i] = <<"on_frame", make_cannot_claim(name_)>>
       /\ Settled => Len(ScenFrames) = 1

\* The cannot-claim frame of a claim started on a full directory has been sent.
C8_Witness ==
  /\ scen.on
  /\ Occupied(scen.net) = Unicast
  /\ Settled
  /\ ScenFrames = << <<"on_frame", make_cannot_claim(name_)>> >>


\* The step runs the handler that delivers AddressClaim{other, a} to the machine.
Delivers(other, a) ==
  /\ queue # <<>>
  /\ Head(queue) = <<"post", <<"ev_address_claim", other, a>>>>
  /\ last'.op = "run"

\* C9: in Has-Address with address a, processing a claim for a from a NAME numerically
\* less than the local one fires on_lose_address and leaves Has-Address: with the directory
\* not full, to Claiming with an address claim sent for a unicast address other than a;
\* with the directory full, to Address-Lost with the cannot-claim frame scheduled.
C9_LosesToLowerName ==
  [][\A other \in Names, a \in Unicast :
       (Delivers(other, a) /\ state = "st_has_address" /\ has_address = a /\ other < name_)
         => /\ state' # "st_has_address"
            /\ \E i \in 1 .. Len(out') : out'[i] = <<"on_lose_address", name_>>
            /\ IF Occupied(net) # Unicast
                 THEN /\ state' = "st_claiming"
                      /\ claiming' \in Unicast \ {a}
                      /\ \E i \in 1 .. Len(out') :
                           out'[i] = <<"on_frame", make_address_claim(name_, claiming')>>
                 ELSE /\ state' = "st_address_lost"
                      /\ timer' = "on_random_timeout"]_vars

C11_StartOutsideNoAddress ==
  [][(last'.op = "start_address_claim" /\ state # "st_no_address")
       => /\ UNCHANGED <<state, claiming, has_address, queue, timer, netvars>>
          /\ out' = <<>>]_vars

\* start_address_claim has been called in Claiming with the claim timer pending, and in
\* Has-Address with a received claim still queued.
C11_Witness ==
  /\ last.op = "start_address_claim"
  /\ \/ state = "st_claiming" /\ timer = "on_claim_timout"
     \/ state = "st_has_address" /\ queue # <<>>


\* C12: when the directory rejects the insert of a received address claim (the address
\* is held by a NAME of higher priority), an error is reported through a callback and the
\* state, candidate and address of the local machine are unchanged.
C12_RejectedClaimReported ==
  [][(last'.op = "process" /\ last'.rejected)
       => /\ \E i \in 1 .. Len(out') : out'[i][1] = "on_error"
          /\ UNCHANGED <<state, claiming, has_address>>]_vars


\* NAME n is a key of the directory's name_address_map_.
Known(d, n) == d.na[n] # NotIn

\* C13: the new-controller callback is called for a received address claim exactly when
\* the NAME of the frame was not yet in the directory, with that NAME and the source
\* address of the frame; a claim frame of a NAME already in the directory calls nothing,
\* and no NAME leaves the directory, so the callback is called once for each NAME.
C13_NewControllerOnce ==
  [][/\ \A n \in Names : Known(net, n) => Known(net', n)
     /\ (last'.op = "process" /\ last'.pf = "PF_ADDRESS_CLAIM") =>
          /\ Known(net', last'.name)
          /\ out' = IF Known(net, last'.name)
                      THEN <<>>
                      ELSE << <<"on_new_controller", last'.name, last'.sa>> >>
     /\ (last'.op # "process" \/ last'.pf # "PF_ADDRESS_CLAIM") =>
          \A i \in 1 .. Len(out') : out'[i][1] # "on_new_controller"]_vars

\* A NAME already in the directory has sent another address claim, which the directory
\* accepted and which called nothing.
C13_Witness ==
  /\ last.op = "process"
  /\ last.pf = "PF_ADDRESS_CLAIM"
  /\ ~last.rejected
  /\ last.sa \in Unicast
  /\ out = <<>>
  /\ \E i \in 1 .. Len(queue) : queue[i] = <<"post", <<"ev_address_claim", last.name, last.sa>>>>


\* ------------------------------------------------------- transport protocol

\* The widest transfer, in packets: the largest value of the 8-bit packet counters.
MaxPackets == 3

\* The most sessions the table holds at once.
MaxSessions == 1

\* The timeouts T2 and T3, in steps of the clock.
TimeoutUnits == 1

PGN_TP_CM == 60416

PGN_TP_DT == 60160

T2 == TimeoutUnits

T3 == TimeoutUnits

RTS == 16

CTS == 17

EOM == 19

BAM == 32

ABORT == 255

ResourcesBusy == 2

AbortTimeout == 3

\* The data bytes of one TP.DT.
PacketBytes == 7

\* The longest payload that is not a transfer.
SingleFrameMax == 8

\* The longest payload of a transfer, 1785 where a counter holds 255.
MaxPayload == MaxPackets * PacketBytes

\* std::uint8_t holds 0 .. UInt8Max; 0xFF is UInt8Max.
UInt8Mod == MaxPackets + 1

UInt8Max == UInt8Mod - 1

\* One byte of a frame's payload.
ByteMod == 256

Min(a, b) == IF a < b THEN a ELSE b

\* jay::frame: the PGN of its header, PS, SA and the eight payload bytes.
make_base_frame(pgn, dst, src) ==
  [pgn |-> pgn, ps |-> dst, sa |-> src,
   payload |-> [i \in 1 .. SingleFrameMax |-> 0]]

make_cm_frame(ctrl, dst_sa, src_sa) ==
  [make_base_frame(PGN_TP_CM, dst_sa, src_sa) EXCEPT !.payload[1] = ctrl]

make_dt_frame(s) == make_base_frame(PGN_TP_DT, s.dest_sa, s.src_sa)

fill_tp_payload(fr, s) ==
  [fr EXCEPT !.payload[2] = s.length % ByteMod,
             !.payload[3] = s.length \div ByteMod,
             !.payload[4] = s.total_packets,
             !.payload[5] = s.window_size,
             !.payload[6] = s.pgn % ByteMod,
             !.payload[7] = (s.pgn \div ByteMod) % ByteMod,
             !.payload[8] = (s.pgn \div (ByteMod * ByteMod)) % ByteMod]

get_payload_pgn(fr) ==
  fr.payload[6] + fr.payload[7] * ByteMod + fr.payload[8] * ByteMod * ByteMod

\* A TpSession as constructed; age is the time since last_activity. Two fields follow the
\* reception and are read by no code: the TP.DT accepted so far were 1 .. seen, each once and
\* in order, as long as regular holds.
TpSession ==
  [dir |-> "Tx", buffer |-> <<>>, total_packets |-> 0, next_seq |-> 1, length |-> 0,
   window_size |-> UInt8Max, dest_sa |-> 0, src_sa |-> 0, pgn |-> 0, bam |-> FALSE,
   age |-> 0, seen |-> 0, regular |-> TRUE]

\* One call into a transport_protocol: its bus address, its table, what it has given to the
\* bus and to the callbacks so far, the answers the bus will give to the coming sends (it
\* accepts once they are used up), and what memory outside a buffer holds.
Engine(node, bus, junk) ==
  [self |-> bus_source_address(node), s |-> sessions_[node], out |-> <<>>, bus |-> bus,
   junk |-> junk]

\* The answer of bus_.send to the next frame.
bus_ok(e) == e.bus = <<>> \/ Head(e.bus)

bus_send(e, fr) ==
  [e EXCEPT !.out = Append(@, <<"send", fr, bus_ok(e)>>),
            !.bus = IF @ = <<>> THEN @ ELSE Tail(@)]

report_error(e, what) == [e EXCEPT !.out = Append(@, <<"on_error", what>>)]

sessions_erase(e, key) == [e EXCEPT !.s[key] = NoSession]

send_abort(e, s, code) ==
  LET fr == fill_tp_payload(make_cm_frame(ABORT, s.src_sa, s.dest_sa), s)
  IN  bus_send(e, [fr EXCEPT !.payload[2] = code, !.payload[3] = 0,
                             !.payload[4] = 0, !.payload[5] = 0])

send_eom_ack(e, s) ==
  IF s.bam THEN e
  ELSE LET fr == fill_tp_payload(make_cm_frame(EOM, s.src_sa, s.dest_sa), s)
           e1 == bus_send(e, [fr EXCEPT !.payload[5] = UInt8Max])
       IN  IF bus_ok(e) THEN e1 ELSE report_error(e1, "tp send EOM")

\* A TP.DT that always carries the first bytes of the buffer.
dt_payload_from_start(e, s, seq) ==
  [i \in 1 .. SingleFrameMax |->
     IF i = 1 THEN seq
     ELSE IF i - 1 <= Min(PacketBytes, Len(s.buffer)) THEN s.buffer[i - 1]
     ELSE 0]

\* The payload of the TP.DT numbered seq: the bytes of the buffer from (seq - 1) * 7,
\* zero after its end; a sequence number that is not 1 .. total_packets reads outside the
\* buffer.
dt_payload(e, s, seq) ==
  LET offset == (seq - 1) * PacketBytes
      inside == seq >= 1 /\ offset < Len(s.buffer)
      avail == Min(PacketBytes, Len(s.buffer) - offset)
  IN  [i \in 1 .. SingleFrameMax |->
         IF i = 1 THEN seq
         ELSE IF ~inside THEN e.junk
         ELSE IF i - 1 <= avail THEN s.buffer[offset + i - 1]
         ELSE 0]

RECURSIVE send_data_packets(_, _, _)
send_data_packets(e, key, count) ==
  LET s == e.s[key] IN
  IF s.next_seq <= s.total_packets /\ count # 0
    THEN LET fr == [make_dt_frame(s) EXCEPT !.payload = dt_payload(e, s, s.next_seq)]
             e1 == bus_send(e, fr)
         IN  IF ~bus_ok(e)
               THEN [e |-> send_abort(report_error(e1, "tp send DT"), s, ResourcesBusy),
                     ret |-> FALSE]
               ELSE send_data_packets(
                      [e1 EXCEPT !.s[key].age = 0,
                                 !.s[key].next_seq = (@ + 1) % UInt8Mod],
                      key, count - 1)
    ELSE IF s.next_seq > s.total_packets
           THEN [e |-> sessions_erase(send_eom_ack(e, s), make_key(s.src_sa, s.dest_sa)),
                 ret |-> TRUE]
           ELSE [e |-> e, ret |-> FALSE]

send_bam_start(e, key) ==
  LET s == e.s[key]
      fr == fill_tp_payload(make_cm_frame(BAM, J1939_NO_ADDR, s.src_sa), s)
      e1 == bus_send(e, fr)
  IN  IF ~bus_ok(e)
        THEN [e |-> send_abort(report_error(e1, "tp send BAM"), s, ResourcesBusy),
              ret |-> FALSE]
        ELSE send_data_packets([e1 EXCEPT !.s[key].age = 0], key, UInt8Max)

send_rts(e, key) ==
  LET s == e.s[key]
      fr == fill_tp_payload(make_cm_frame(RTS, s.dest_sa, s.src_sa), s)
      e1 == bus_send(e, fr)
  IN  IF ~bus_ok(e)
        THEN [e |-> send_abort(report_error(e1, "tp send RTS"), s, ResourcesBusy),
              ret |-> FALSE]
        ELSE [e |-> [e1 EXCEPT !.s[key].age = 0], ret |-> TRUE]

start_tx(e, data, dest, pgn) ==
  IF Len(data) <= SingleFrameMax THEN [e |-> e, ret |-> FALSE]
  ELSE IF Len(data) > MaxPayload
    THEN [e |-> report_error(e, "payload too large"), ret |-> FALSE]
  ELSE
    LET use_bam == dest = J1939_NO_ADDR
        sess == [TpSession EXCEPT
                   !.dir = "Tx", !.buffer = data, !.length = Len(data),
                   !.total_packets = ((Len(data) + 6) \div PacketBytes) % UInt8Mod,
                   !.dest_sa = dest, !.src_sa = e.self, !.pgn = pgn, !.bam = use_bam]
        key == make_key(sess.src_sa, sess.dest_sa)
        e1 == [e EXCEPT !.s[key] = sess]
    IN  IF use_bam THEN send_bam_start(e1, key) ELSE send_rts(e1, key)

send(e, data, dest, pgn) == start_tx(e, data, dest, pgn)

response_cts(e, session) ==
  LET cts == fill_tp_payload(make_cm_frame(CTS, session.src_sa, session.dest_sa), session)
  IN  bus_send(e, [cts EXCEPT !.payload[2] = session.window_size,
                              !.payload[3] = session.next_seq,
                              !.payload[4] = 0, !.payload[5] = 0])

\* TP.CM is a PDU1 group: is_broadcast() is false and the session is keyed by the frame's PS.
start_rx_rts(e, fr) ==
  IF fr.ps # e.self THEN e
  ELSE
    LET length == fr.payload[2] + fr.payload[3] * ByteMod
        s == [TpSession EXCEPT
                !.dir = "Rx", !.length = length, !.total_packets = fr.payload[4],
                !.window_size = fr.payload[5], !.dest_sa = fr.ps, !.src_sa = fr.sa,
                !.pgn = get_payload_pgn(fr), !.buffer = [i \in 1 .. length |-> 0],
                !.next_seq = 1]
        key == make_key(s.src_sa, s.dest_sa)
        e1 == [e EXCEPT !.s[key] = s]
    IN  response_cts(e1, e1.s[key])

handle_cts(e, fr) ==
  LET key == make_key(e.self, fr.sa) IN
  IF e.s[key] # NoSession THEN send_data_packets(e, key, fr.payload[2]).e ELSE e

\* A BAM reception that answers with a CTS.
start_rx_bam_answering(e, fr) == response_cts(e, [TpSession EXCEPT !.src_sa = fr.sa])

start_rx_bam(e, fr) ==
  LET length == fr.payload[2] + fr.payload[3] * ByteMod
      s == [TpSession EXCEPT
              !.dir = "Rx", !.bam = TRUE, !.length = length,
              !.total_packets = fr.payload[4], !.dest_sa = J1939_NO_ADDR,
              !.src_sa = fr.sa, !.pgn = get_payload_pgn(fr),
              !.buffer = [i \in 1 .. length |-> 0]]
  IN  [e EXCEPT !.s[make_key(s.src_sa, s.dest_sa)] = s]

\* What rx_callback_ is given: the header and the payload.
rx_callback_(e, session) ==
  [e EXCEPT !.out = Append(@, <<"on_data",
                                [pgn |-> session.pgn, sa |-> session.src_sa,
                                 ps |-> IF session.bam THEN 0 ELSE session.dest_sa],
                                session.buffer>>)]

\* With the offset beyond the buffer, buffer.size() - offset wraps around in std::size_t,
\* avail is 7 and copy_n writes outside the buffer: the bytes land in memory that is no
\* part of this state, or the process stops in the middle of the call, which is the step
\* not being taken.
handle_dt(e, fr) ==
  LET key == make_key(fr.sa, fr.ps)
      session == e.s[key]
      seq == fr.payload[1]
      offset == (seq - 1) * PacketBytes
      avail == Min(PacketBytes, Len(session.buffer) - offset)
      buffer == [i \in 1 .. Len(session.buffer) |->
                   IF i > offset /\ i <= offset + avail
                     THEN fr.payload[i - offset + 1]
                     ELSE session.buffer[i]]
      filled == [session EXCEPT !.buffer = buffer, !.age = 0,
                                !.seen = IF seq = @ + 1 THEN seq ELSE @,
                                !.regular = @ /\ seq = session.seen + 1]
      e1 == [e EXCEPT !.s[key] = filled]
  IN  IF session = NoSession THEN e
      ELSE IF seq < 1 \/ seq > session.total_packets THEN e
      ELSE IF seq = session.total_packets
        THEN LET e2 == rx_callback_(e1, filled)
                 e3 == IF ~filled.bam THEN send_eom_ack(e2, filled) ELSE e2
             IN  sessions_erase(e3, key)
      ELSE IF seq % session.window_size = 0 /\ ~session.bam
        THEN response_cts(e1, filled)
      ELSE e1

\* A handler that ignores the abort.
handle_abort_ignored(e, fr) == e

handle_abort(e, fr) ==
  LET key == make_key(e.self, fr.sa) IN
  IF e.s[key] # NoSession
    THEN report_error(sessions_erase(e, key), "remote abort")
    ELSE e

complete_rx(e, fr) == e

handle_cm(e, fr) ==
  LET ctrl == fr.payload[1] IN
  CASE ctrl = RTS -> start_rx_rts(e, fr)
    [] ctrl = CTS -> handle_cts(e, fr)
    [] ctrl = BAM -> start_rx_bam(e, fr)
    [] ctrl = EOM -> complete_rx(e, fr)
    [] ctrl = ABORT -> handle_abort(e, fr)
    [] OTHER -> e

on_can_frame(e, fr) ==
  IF fr.pgn = PGN_TP_CM THEN handle_cm(e, fr)
  ELSE IF fr.pgn = PGN_TP_DT THEN handle_dt(e, fr)
  ELSE e

\* A tick that looks at no session.
tick_idle(e) == e

\* tick visits the sessions one after the other; the keys are taken in the order of KeyOrder.
KeyOrder(key) == key[1] * (J1939_NO_ADDR + 1) + key[2]

RECURSIVE tick_from(_, _)
tick_from(e, todo) ==
  IF todo = {} THEN e
  ELSE
    LET key == CHOOSE k \in todo : \A o \in todo : KeyOrder(k) <= KeyOrder(o)
        s == e.s[key]
        timeout == IF s.dir = "Tx" THEN T3 ELSE T2
    IN  IF s.age > timeout
          THEN tick_from(
                 sessions_erase(report_error(send_abort(e, s, AbortTimeout), "tp timeout"),
                                key),
                 todo \ {key})
          ELSE tick_from(e, todo \ {key})

tick(e) == tick_from(e, {key \in Keys : e.s[key] # NoSession})


\* ----------------------------------------- one transport_protocol and its bus

\* A payload of len bytes: 1, 2, .. len, or len, .. 2, 1.
Data(len, rev) == [i \in 1 .. len |-> IF rev THEN len + 1 - i ELSE i]

\* The lengths a peer announces: the shortest transfer, the longest, and the first that
\* needs a packet more than the shortest.
PeerLengths == {SingleFrameMax + 1, 2 * PacketBytes + 1, MaxPayload}

\* The payload lengths given to send: too short, too long, and the shortest and the longest
\* transfer of each number of packets.
Lengths ==
  {SingleFrameMax, MaxPayload + 1}
  \cup {n * PacketBytes : n \in 2 .. MaxPackets}
  \cup {n * PacketBytes + 1 : n \in 1 .. (MaxPackets - 1)}
  \cup {SingleFrameMax + 1}

\* The transported groups: with the payload 1, 2, .. the first, with len, .. 2, 1 the second.
Pgn(rev) == IF rev THEN 65226 ELSE 4660

\* The peer whose frames reach the node, and the node itself.
Peer == bus_source_address("B")

Local == bus_source_address("A")

\* What the bus answers to the sends of one call: it accepts them all, or refuses one of them
\* and then accepts or refuses the abort that follows.
Trues(n) == [i \in 1 .. n |-> TRUE]

BusAnswers(sends) ==
  {<<>>} \cup {Trues(n) \o tail : n \in 0 .. (sends - 1),
                                  tail \in {<<FALSE>>, <<FALSE, FALSE>>}}

\* What a read outside a buffer may find.
Junk == {0, ByteMod - 1}

\* The packets a length needs.
Packets(len) == (len + PacketBytes - 1) \div PacketBytes

\* The frames a peer sends to the node.
PeerRTS(len, window, pgn, ps) ==
  fill_tp_payload(make_cm_frame(RTS, ps, Peer),
                  [TpSession EXCEPT !.length = len, !.total_packets = Packets(len),
                                    !.window_size = window, !.pgn = pgn])

PeerBAM(len, pgn) ==
  fill_tp_payload(make_cm_frame(BAM, J1939_NO_ADDR, Peer),
                  [TpSession EXCEPT !.length = len, !.total_packets = Packets(len),
                                    !.pgn = pgn])

\* An RTS and a BAM whose packet count is not the one their length needs.
PeerRTSOf(len, total, window) ==
  [PeerRTS(len, window, Pgn(FALSE), Local) EXCEPT !.payload[4] = total]

PeerBAMOf(len, total) == [PeerBAM(len, Pgn(FALSE)) EXCEPT !.payload[4] = total]

PeerCTS(count, next_seq) ==
  [make_cm_frame(CTS, Local, Peer) EXCEPT !.payload[2] = count, !.payload[3] = next_seq]

PeerEOM == make_cm_frame(EOM, Local, Peer)

PeerABORT == [make_cm_frame(ABORT, Local, Peer) EXCEPT !.payload[2] = AbortTimeout]

\* The TP.DT numbered seq of a payload 1, 2, ..: seven bytes, whatever the length.
PeerDT(seq, ps) ==
  [make_base_frame(PGN_TP_DT, ps, Peer) EXCEPT
     !.payload = [i \in 1 .. SingleFrameMax |->
                    IF i = 1 THEN seq ELSE ((seq - 1) * PacketBytes + i - 1) % ByteMod]]

PeerFrames ==
  {PeerRTS(len, window, Pgn(FALSE), Local) : len \in PeerLengths, window \in {1, UInt8Max}}
  \cup {PeerRTS(MaxPayload, UInt8Max, Pgn(FALSE), J1939_IDLE_ADDR)}
  \cup {PeerBAM(len, Pgn(FALSE)) : len \in PeerLengths}
  \cup {PeerRTSOf(SingleFrameMax + 1, MaxPackets, UInt8Max), PeerBAMOf(MaxPayload, 1)}
  \cup {PeerCTS(count, 1) : count \in 0 .. UInt8Max}
  \cup {PeerEOM, PeerABORT}
  \cup {PeerDT(seq, ps) : seq \in 0 .. UInt8Max, ps \in {Local, J1939_NO_ADDR}}

\* The most frames a send of len bytes gives to the bus before it returns or aborts.
SendsOf(len, dest) ==
  IF len <= SingleFrameMax \/ len > MaxPayload THEN 0
  ELSE IF dest = J1939_NO_ADDR THEN Packets(len) + 1
  ELSE 1

\* The most frames the handling of a received frame gives to the bus, and what may then be
\* read outside a buffer.
SendsOn(fr) ==
  IF fr.pgn = PGN_TP_DT \/ fr.payload[1] = RTS THEN 1
  ELSE IF fr.payload[1] = CTS THEN MaxPackets + 1
  ELSE 0

JunkOn(fr) == IF fr.pgn = PGN_TP_CM /\ fr.payload[1] = CTS THEN Junk ELSE {0}

Size(table) == Cardinality({key \in Keys : table[key] # NoSession})

\* The call is made, its table, its frames and its callbacks become the state.
TpCommit(e) ==
  /\ Size(e.s) <= MaxSessions
  /\ sessions_' = [sessions_ EXCEPT !["A"] = e.s]
  /\ out' = e.out
  /\ UNCHANGED <<netvars, amvars, wire, transfer, conn, threads, pair>>

\* send(data, dest, pgn), when the table has room for the session it installs.
TpSend(data, dest, pgn, bus) ==
  LET r == send(Engine("A", bus, 0), data, dest, pgn) IN
  /\ \/ Len(data) <= SingleFrameMax
     \/ Len(data) > MaxPayload
     \/ Size(sessions_["A"]) < MaxSessions
     \/ sessions_["A"][make_key(Local, dest)] # NoSession
  /\ TpCommit(r.e)
  /\ last' = [op |-> "send", data |-> data, dest |-> dest, pgn |-> pgn, ret |-> r.ret]

\* on_can_frame(fr)
TpRecv(fr, bus, junk) ==
  /\ TpCommit(on_can_frame(Engine("A", bus, junk), fr))
  /\ last' = [op |-> "on_can_frame", fr |-> fr]

\* tick()
TpTick(bus) ==
  /\ TpCommit(tick(Engine("A", bus, 0)))
  /\ last' = [op |-> "tick"]

\* steady_clock moves on by one unit.
TpAdvance ==
  /\ \E key \in Keys : sessions_["A"][key] # NoSession /\ sessions_["A"][key].age <= T3
  /\ sessions_' = [sessions_ EXCEPT !["A"] =
                     [key \in Keys |->
                        IF @[key] # NoSession /\ @[key].age <= T3
                          THEN [@[key] EXCEPT !.age = @ + 1]
                          ELSE @[key]]]
  /\ out' = <<>>
  /\ last' = [op |-> "advance"]
  /\ UNCHANGED <<netvars, amvars, wire, transfer, conn, threads, pair>>

InitTP == InitNetwork

NextTP ==
  \/ \E len \in Lengths, rev \in BOOLEAN, dest \in {Peer, J1939_NO_ADDR} :
       \E bus \in BusAnswers(SendsOf(len, dest)) :
         TpSend(Data(len, rev), dest, Pgn(rev), bus)
  \/ \E fr \in PeerFrames : \E bus \in BusAnswers(SendsOn(fr)), junk \in JunkOn(fr) :
       TpRecv(fr, bus, junk)
  \/ \E bus \in BusAnswers(MaxSessions) : TpTick(bus)
  \/ TpAdvance

SpecTP == InitTP /\ [][NextTP]_vars


\* ------------------------------------------------ claims on the transport

\* The frames of out that the bus was given, in order, and whether it took them all.
Frames(o) == [i \in 1 .. Len(o) |-> IF o[i][1] = "send" THEN o[i][2] ELSE <<>>]

AllSends(o) == \A i \in 1 .. Len(o) : o[i][1] = "send"

AllAccepted(o) == \A i \in 1 .. Len(o) : o[i][1] = "send" => o[i][3]

HasError(o) == \E i \in 1 .. Len(o) : o[i][1] = "on_error"

IsCM(fr, ctrl) == fr.pgn = PGN_TP_CM /\ fr.payload[1] = ctrl

IsDT(fr) == fr.pgn = PGN_TP_DT

\* TP.DT number k of data carries k and the bytes of data from offset 7(k-1).
CarriesPacket(fr, data, k) ==
  /\ IsDT(fr)
  /\ fr.payload[1] = k
  /\ \A i \in 1 .. PacketBytes :
       (k - 1) * PacketBytes + i <= Len(data) =>
         fr.payload[i + 1] = data[(k - 1) * PacketBytes + i]

\* The step is a send of a transfer to dest on a bus that takes every frame.
SendStep(dest) ==
  /\ last'.op = "send"
  /\ last'.dest = dest
  /\ Len(last'.data) > SingleFrameMax
  /\ Len(last'.data) <= MaxPayload
  /\ AllAccepted(out')

\* C14: a send of 8 < len <= 1785 bytes to 0xFF returns true and gives the bus one TP.CM
\* with control 0x20, the length, ceil(len/7) packets and the PGN, then the TP.DT numbered
\* 1 .. ceil(len/7) in order, each with the bytes from offset 7(k-1), and leaves no session.
C14_BamSend ==
  [][SendStep(J1939_NO_ADDR) =>
       LET data == last'.data
           total == Packets(Len(data))
           f == Frames(out')
       IN  /\ last'.ret
           /\ AllSends(out')
           /\ Len(out') = total + 1
           /\ IsCM(f[1], BAM)
           /\ f[1].payload[2] + f[1].payload[3] * ByteMod = Len(data)
           /\ f[1].payload[4] = total
           /\ get_payload_pgn(f[1]) = last'.pgn
           /\ \A k \in 1 .. total : CarriesPacket(f[k + 1], data, k)
           /\ sessions_'["A"][make_key(Local, J1939_NO_ADDR)] = NoSession]_vars


\* ------------------------------------------- two transport_protocols on a link

Other(node) == IF node = "A" THEN "B" ELSE "A"

\* The frames of out that the bus took, in order.
Accepted(o) == SelectSeq(o, LAMBDA ev : ev[1] = "send" /\ ev[3])

OnBus(o) == [i \in 1 .. Len(Accepted(o)) |-> Accepted(o)[i][2]]

\* The payloads rx_callback_ was given, in order.
Delivered(o) ==
  LET d == SelectSeq(o, LAMBDA ev : ev[1] = "on_data") IN [i \in 1 .. Len(d) |-> d[i][3]]

Quiet == \A node \in Nodes : wire[node] = <<>>

\* Every transfer, every length.
Transfers == (SingleFrameMax + 1) .. MaxPayload

\* A sends data to dest while nothing is in flight; every frame goes to B.
LinkSend(data, dest, pgn) ==
  LET r == send(Engine("A", <<>>, 0), data, dest, pgn) IN
  /\ Quiet
  /\ sessions_' = [sessions_ EXCEPT !["A"] = r.e.s]
  /\ wire' = [wire EXCEPT !["B"] = @ \o OnBus(r.e.out)]
  /\ out' = r.e.out
  /\ transfer' = [on |-> TRUE, data |-> data, dest |-> dest, got |-> <<>>]
  /\ last' = [op |-> "send", data |-> data, dest |-> dest, pgn |-> pgn, ret |-> r.ret]
  /\ UNCHANGED <<netvars, amvars, conn, threads, pair>>

\* The oldest frame on its way to node reaches it; what node sends goes to the other node.
LinkDeliver(node, junk) ==
  /\ wire[node] # <<>>
  /\ LET e == on_can_frame(Engine(node, <<>>, junk), Head(wire[node])) IN
       /\ sessions_' = [sessions_ EXCEPT ![node] = e.s]
       /\ wire' = [wire EXCEPT ![node] = Tail(@), ![Other(node)] = @ \o OnBus(e.out)]
       /\ out' = e.out
       /\ transfer' = IF node = "B"
                        THEN [transfer EXCEPT !.got = @ \o Delivered(e.out)]
                        ELSE transfer
  /\ last' = [op |-> "on_can_frame", fr |-> Head(wire[node])]
  /\ UNCHANGED <<netvars, amvars, conn, threads, pair>>

NextLink ==
  \/ \E len \in Transfers, rev \in BOOLEAN, dest \in {Peer, J1939_NO_ADDR} :
       LinkSend(Data(len, rev), dest, Pgn(rev))
  \/ \E node \in Nodes, junk \in Junk : LinkDeliver(node, junk)

SpecLink == InitTP /\ [][NextLink]_vars

\* C15: a payload of 8 < len <= 1785 bytes sent in BAM or RTS/CTS mode, every frame of
\* either side delivered to the other, gives the receiver exactly one on_data, and its
\* payload is the data sent.
C15_RoundTrip ==
  transfer.on =>
    /\ Len(transfer.got) <= 1
    /\ \A i \in 1 .. Len(transfer.got) : transfer.got[i] = transfer.data
    /\ Quiet => Len(transfer.got) = 1

\* A transfer of the most packets in RTS/CTS mode has arrived, nothing is in flight.
C15_Witness ==
  /\ transfer.on
  /\ Quiet
  /\ transfer.dest = Peer
  /\ Len(transfer.data) = MaxPayload
  /\ transfer.got = <<transfer.data>>


\* ------------------------------------------- claims on one transport_protocol

\* The step is the receipt of a TP.DT for the open Rx session under key.
DtStep(key) ==
  /\ last'.op = "on_can_frame"
  /\ IsDT(last'.fr)
  /\ key = make_key(last'.fr.sa, last'.fr.ps)
  /\ sessions_["A"][key].dir = "Rx"

SentCM(o, ctrl) == \E i \in 1 .. Len(o) : o[i][1] = "send" /\ IsCM(o[i][2], ctrl)

\* C16: on_data is given only when the TP.DT 1 .. total_packets have been observed, each
\* once and in order; a TP.DT in 1 .. total_packets that leaves a gap or comes again makes
\* the receiver abort the session and is not accepted.
C16_ContiguousOrAbort ==
  [][\A key \in Keys :
       DtStep(key) =>
         LET s == sessions_["A"][key]
             seq == last'.fr.payload[1]
         IN  /\ Delivered(out') # <<>> =>
                  s.regular /\ s.seen + 1 = s.total_packets /\ seq = s.total_packets
             /\ (seq >= 1 /\ seq <= s.total_packets /\ seq # s.seen + 1) =>
                  /\ SentCM(out', ABORT)
                  /\ sessions_'["A"][key] = NoSession
                  /\ Delivered(out') = <<>>]_vars


\* The sessions of a table whose last activity is older than their timeout.
Stale(table) ==
  {key \in Keys :
     /\ table[key] # NoSession
     /\ table[key].age > (IF table[key].dir = "Tx" THEN T3 ELSE T2)}

IsTimeoutAbort(ev) ==
  ev[1] = "send" /\ IsCM(ev[2], ABORT) /\ ev[2].payload[2] = AbortTimeout

IsSend(ev) == ev[1] = "send"

IsError(ev) == ev[1] = "on_error"

\* C17: a tick gives the bus one TP.CM ABORT with code 3 for each session older than its
\* timeout and nothing else, reports an error for each, and removes it; every other
\* session is left as it was.
C17_TickAbortsStale ==
  [][last'.op = "tick" =>
       LET stale == Stale(sessions_["A"]) IN
       /\ Len(SelectSeq(out', IsTimeoutAbort)) = Cardinality(stale)
       /\ Len(SelectSeq(out', IsSend)) = Cardinality(stale)
       /\ Len(SelectSeq(out', IsError)) = Cardinality(stale)
       /\ \A key \in Keys :
            sessions_'["A"][key] = IF key \in stale THEN NoSession
                                    ELSE sessions_["A"][key]]_vars

\* A tick has aborted a session: the abort and the error are what it gave out.
C17_Witness ==
  /\ last.op = "tick"
  /\ Len(out) = 2
  /\ IsTimeoutAbort(out[1])
  /\ IsError(out[2])
  /\ Size(sessions_["A"]) = 0


\* The key of the transmission to the peer.
TxKey == make_key(Local, Peer)

SentDT(o) == \E i \in 1 .. Len(o) : o[i][1] = "send" /\ IsDT(o[i][2])

\* C18: an ABORT from the peer removes the Tx session of the transfer to it and reports an
\* error; from then on, with the session gone, a CTS from the peer makes the sender give no
\* TP.DT to the bus, and a tick gives an ABORT only for the sessions it finds.
C18_RemoteAbortStops ==
  [][/\ (last'.op = "on_can_frame" /\ last'.fr = PeerABORT /\ sessions_["A"][TxKey].dir = "Tx")
          => /\ sessions_'["A"][TxKey] = NoSession
             /\ HasError(out')
             /\ ~SentDT(out')
     /\ (last'.op = "on_can_frame" /\ IsCM(last'.fr, CTS) /\ sessions_["A"][TxKey] = NoSession)
          => /\ ~SentDT(out')
             /\ sessions_'["A"][TxKey] = NoSession
     /\ (last'.op = "tick" /\ sessions_["A"][TxKey] = NoSession)
          => /\ Len(SelectSeq(out', LAMBDA ev : ev[1] = "send" /\ IsCM(ev[2], ABORT)))
                  = Cardinality(Stale(sessions_["A"]))
             /\ sessions_'["A"][TxKey] = NoSession]_vars

\* The abort of the peer has just ended a transmission that had sent its RTS.
C18_Witness ==
  /\ last.op = "on_can_frame"
  /\ last.fr = PeerABORT
  /\ HasError(out)
  /\ sessions_["A"][TxKey] = NoSession


\* The bus took the last TP.DT of session s in this call.
SentFinalDT(o, s) ==
  \E i \in 1 .. Len(o) :
    o[i][1] = "send" /\ o[i][3] /\ IsDT(o[i][2]) /\ o[i][2].payload[1] = s.total_packets

\* C19: in RTS/CTS mode the session of the sender is still open after its last TP.DT; the
\* EOM_ACK of the peer then destroys it without an abort, and a tick after T3 without one
\* aborts it with code 3, reports an error and destroys it.
C19_AwaitsEomAck ==
  [][LET s == sessions_["A"][TxKey] IN
     /\ (last'.op = "on_can_frame" /\ IsCM(last'.fr, CTS) /\ s.dir = "Tx"
           /\ SentFinalDT(out', s))
          => /\ sessions_'["A"][TxKey] # NoSession
             /\ ~SentCM(out', ABORT)
     /\ (last'.op = "on_can_frame" /\ last'.fr = PeerEOM /\ s.dir = "Tx"
           /\ s.next_seq = (s.total_packets + 1) % UInt8Mod)
          => /\ sessions_'["A"][TxKey] = NoSession
             /\ ~SentCM(out', ABORT)
     /\ (last'.op = "tick" /\ s.dir = "Tx" /\ s.age > T3)
          => /\ sessions_'["A"][TxKey] = NoSession
             /\ \E i \in 1 .. Len(out') : IsTimeoutAbort(out'[i])
             /\ HasError(out')]_vars


\* The bus refused a frame of the transfer in this call: its TP.CM BAM, its RTS or a TP.DT.
Refused(o) ==
  \E i \in 1 .. Len(o) :
    /\ o[i][1] = "send"
    /\ ~o[i][3]
    /\ IsDT(o[i][2]) \/ IsCM(o[i][2], BAM) \/ IsCM(o[i][2], RTS)

\* No TP.DT is given to the bus after a frame it refused.
NoDTAfterRefusal(o) ==
  \A i, j \in 1 .. Len(o) :
    (i < j /\ o[i][1] = "send" /\ ~o[i][3]) => ~(o[j][1] = "send" /\ IsDT(o[j][2]))

\* C20: when the bus refuses the TP.CM BAM, the RTS or a TP.DT of a transmission, send
\* returns false, an error is reported, no further TP.DT of the transfer is given to the
\* bus and the session is no longer in the table.
C20_RefusalAbandons ==
  [][/\ (last'.op = "send" /\ Refused(out'))
          => /\ ~last'.ret
             /\ HasError(out')
             /\ NoDTAfterRefusal(out')
             /\ sessions_'["A"][make_key(Local, last'.dest)] = NoSession
     /\ (last'.op = "on_can_frame" /\ IsCM(last'.fr, CTS) /\ Refused(out'))
          => /\ HasError(out')
             /\ NoDTAfterRefusal(out')
             /\ sessions_'["A"][TxKey] = NoSession]_vars


\* The key of a BAM reception from the peer.
BamKey == make_key(Peer, J1939_NO_ADDR)

NoSend(o) == \A i \in 1 .. Len(o) : o[i][1] # "send"

\* C21: a BAM reception gives the bus nothing: not when the TP.CM BAM arrives, not when a
\* TP.DT of the open BAM session arrives, and not at a tick that finds the session within
\* its timeout; the reception ends with the delivery or with the tick that times it out.
C21_BamReceiverSilent ==
  [][/\ (last'.op = "on_can_frame" /\ IsCM(last'.fr, BAM)) => NoSend(out')
     /\ (last'.op = "on_can_frame" /\ IsDT(last'.fr) /\ last'.fr.ps = J1939_NO_ADDR
           /\ sessions_["A"][BamKey].dir = "Rx" /\ sessions_["A"][BamKey].bam)
          => NoSend(out')
     /\ (last'.op = "tick" /\ sessions_["A"][BamKey].dir = "Rx"
           /\ BamKey \notin Stale(sessions_["A"]))
          => /\ Len(SelectSeq(out', IsSend)) = Cardinality(Stale(sessions_["A"]))
             /\ sessions_'["A"][BamKey] = sessions_["A"][BamKey]]_vars

\* The last TP.DT of a BAM reception has been delivered and nothing was given to the bus.
C21_Witness ==
  /\ last.op = "on_can_frame"
  /\ IsDT(last.fr)
  /\ last.fr.ps = J1939_NO_ADDR
  /\ Len(out) = 1
  /\ out[1][1] = "on_data"
  /\ sessions_["A"][BamKey] = NoSession


\* ----------------------------------------------------------- j1939_connection

PF_PDU1_MAX == 239

\* frame_header::pdu_format of a frame, from the PGN it carries.
pdu_format(fr) == (fr.pgn \div ByteMod) % ByteMod

is_broadcast(fr) == pdu_format(fr) > PF_PDU1_MAX

\* A check that lets every frame through.
check_address_any(c, d, fr) == TRUE

\* j1939_connection::check_address on the frame in buffer_.
check_address(c, d, fr) ==
  IF c.target_name_ = NoName /\ c.local_name_ = NoName THEN TRUE
  ELSE IF is_broadcast(fr)
    THEN IF c.target_name_ # NoName THEN get_address(d, c.target_name_) = fr.sa ELSE TRUE
  ELSE IF c.target_name_ # NoName /\ c.local_name_ # NoName
    THEN get_address(d, c.target_name_) = fr.sa /\ get_address(d, c.local_name_) = fr.ps
  ELSE IF c.target_name_ = NoName /\ c.local_name_ # NoName
    THEN get_address(d, c.local_name_) = fr.ps
  ELSE IF c.target_name_ # NoName /\ c.local_name_ = NoName
    THEN get_address(d, c.target_name_) = fr.sa
  ELSE FALSE

\* The handler of async_receive without an error: what it gives to the callbacks and to tp_.
async_read(e, c, d, fr) ==
  LET e1 == [e EXCEPT !.out = Append(@, <<"on_read", fr>>)] IN
  IF check_address(c, d, fr)
    THEN [on_can_frame(e1, fr) EXCEPT !.out = Append(@, <<"on_data", fr, fr.payload>>)]
    ELSE e1

\* j1939_connection::write: the socket takes the frame or fails.
write(o, fr, ok) ==
  IF ok THEN [out |-> o \o << <<"write", fr>>, <<"on_send", fr>> >>, ret |-> TRUE]
  ELSE [out |-> Append(o, <<"on_error", "write">>), ret |-> FALSE]

send_raw(o, fr, ok) == write(o, fr, ok)

send_to(c, d, name, fr, ok) ==
  IF c.local_name_ = NoName
    THEN [out |-> << <<"on_error", "Socket has no local name">> >>, ret |-> FALSE]
  ELSE IF get_address(d, c.local_name_) = J1939_IDLE_ADDR
    THEN [out |-> << <<"on_error", "Socket has no source address">> >>, ret |-> FALSE]
  ELSE IF get_address(d, name) = J1939_IDLE_ADDR
    THEN [out |-> << <<"on_error", "Destination has no address">> >>, ret |-> FALSE]
  ELSE send_raw(<<>>, [fr EXCEPT !.sa = get_address(d, c.local_name_),
                                 !.ps = get_address(d, name)], ok)

\* The NAMEs a connection is given, and the NAMEs the directory is told of.
ConnNames == {0, 1}

Conns ==
  {[NoConn EXCEPT !.local_name_ = l, !.target_name_ = t] :
     l \in {NoName, 0}, t \in {NoName, 1}}

\* The groups of the frames: an addressed group and a broadcast group.
AddressedPgn == 61184

BroadcastPgn == 65226

\* The frames read: the TP.CM of a BAM, an addressed frame whatever its PS says, and
\* broadcast frames, whose PS is no address.
ConnBAM(sa, ps) == [PeerBAM(SingleFrameMax + 1, Pgn(FALSE)) EXCEPT !.sa = sa, !.ps = ps]

ConnFrames ==
  {ConnBAM(sa, ps) : sa \in Addresses, ps \in Addresses}
  \cup {make_base_frame(BroadcastPgn, 0, sa) : sa \in Addresses}

\* The transport_protocol of the connection: its bus has the address src_addr_.
ConnEngine == [Engine("A", <<>>, 0) EXCEPT !.self = conn.src_addr_]

\* A frame arrives on the socket.
ConnRead(fr) ==
  LET e == async_read(ConnEngine, conn, net, fr) IN
  /\ Size(e.s) <= MaxSessions
  /\ sessions_' = [sessions_ EXCEPT !["A"] = e.s]
  /\ out' = e.out
  /\ last' = [op |-> "async_read", fr |-> fr]
  /\ UNCHANGED <<netvars, amvars, wire, transfer, conn, threads, pair>>

\* send_to(name, frame)
ConnSendTo(name, fr, ok) ==
  LET r == send_to(conn, net, name, fr, ok) IN
  /\ out' = r.out
  /\ last' = [op |-> "send_to", name |-> name, fr |-> fr, ret |-> r.ret]
  /\ UNCHANGED <<netvars, amvars, tpvars>>

InitConn ==
  /\ name_address_map_ = EmptyNet.na
  /\ address_name_map_ = EmptyNet.an
  /\ name_ = 0
  /\ state = "st_no_address"
  /\ claiming = J1939_NO_ADDR
  /\ has_address = J1939_NO_ADDR
  /\ queue = <<>>
  /\ timer = "none"
  /\ out = <<>>
  /\ scen = NoScen
  /\ last = NoOp
  /\ sessions_ = [node \in Nodes |-> NoSessions]
  /\ wire = [node \in Nodes |-> <<>>]
  /\ transfer = NoTransfer
  /\ conn \in Conns
  /\ threads = NoThreads
  /\ pair = NoPair

NextConn ==
  \/ \E name \in ConnNames, address \in Addresses : Insert(name, address)
  \/ \E name \in ConnNames : Release(name)
  \/ \E fr \in ConnFrames : ConnRead(fr)
  \/ \E name \in ConnNames \cup {slf_cfg_addr_mask}, ok \in BOOLEAN :
       ConnSendTo(name, make_base_frame(AddressedPgn, 0, 0), ok)

SpecConn == InitConn /\ [][NextConn]_vars

\* What the directory says of a NAME's address.
AddressOf(n) == IF name_address_map_[n] = NotIn THEN J1939_NO_ADDR ELSE name_address_map_[n]

\* tp_ was given the frame: the TP.CM of a BAM opened a session for its sender.
ReachedTP(fr) ==
  IsCM(fr, BAM) => sessions_'["A"][make_key(fr.sa, J1939_NO_ADDR)].dir = "Rx"

\* C22: check_address accepts a frame exactly when no NAME is configured, or the frame is a
\* broadcast and no target is set or the target's address is the frame's SA, or the frame
\* is addressed and the target, if set, has the address SA and the local NAME, if set, the
\* address PS; a rejected frame reaches neither tp_ nor on_data.
C22_CheckAddress ==
  [][last'.op = "async_read" =>
       LET fr == last'.fr
           local == conn.local_name_
           target == conn.target_name_
           accept ==
             \/ local = NoName /\ target = NoName
             \/ /\ pdu_format(fr) >= PF_PDU1_MAX + 1
                /\ target = NoName \/ AddressOf(target) = fr.sa
             \/ /\ pdu_format(fr) < PF_PDU1_MAX + 1
                /\ target # NoName => AddressOf(target) = fr.sa
                /\ local # NoName => AddressOf(local) = fr.ps
       IN  IF accept
             THEN /\ \E i \in 1 .. Len(out') : out'[i][1] = "on_data" /\ out'[i][2] = fr
                  /\ ReachedTP(fr)
             ELSE /\ out' = << <<"on_read", fr>> >>
                  /\ sessions_' = sessions_]_vars

\* A connection with both NAMEs has accepted an addressed frame from its target to itself.
C22_Witness ==
  /\ last.op = "async_read"
  /\ conn.local_name_ # NoName
  /\ conn.target_name_ # NoName
  /\ ~is_broadcast(last.fr)
  /\ last.fr.sa \in Unicast
  /\ Len(out) = 2
  /\ out[2][1] = "on_data"


\* The NAME is in the directory with an address in 0 .. 253.
HoldsAddress(n) == n # NoName /\ name_address_map_[n] \in Unicast

Written(o) == \E i \in 1 .. Len(o) : o[i][1] = "write"

\* C23: send_to writes a frame only when the local NAME and the destination NAME both hold
\* an address in 0 .. 253, and then with these as SA and PS; when either holds none it
\* returns false, reports an error and writes nothing.
C23_SendToNeedsAddresses ==
  [][last'.op = "send_to" =>
       IF HoldsAddress(conn.local_name_) /\ HoldsAddress(last'.name)
         THEN \A i \in 1 .. Len(out') :
                out'[i][1] = "write" =>
                  /\ out'[i][2].sa = name_address_map_[conn.local_name_]
                  /\ out'[i][2].ps = name_address_map_[last'.name]
         ELSE /\ ~last'.ret
              /\ HasError(out')
              /\ ~Written(out')]_vars

\* ------------------------------------------------- the directory under threads

\* network::try_address_claim up to the first test of the address: a new NAME is put
\* at IDLE, a known one loses its old address, or the call returns true at once.
try_address_claim_first(d, name, address) ==
  IF d.na[name] = NotIn
    THEN [net |-> Net([d.na EXCEPT ![name] = J1939_IDLE_ADDR], d.an),
          returned |-> FALSE, tmp |-> NotIn]
  ELSE IF address # d.na[name]
    THEN [net |-> Net(d.na, map_erase(d.an, d.na[name])), returned |-> FALSE, tmp |-> NotIn]
  ELSE [net |-> d, returned |-> TRUE, tmp |-> NotIn]

\* network::try_address_claim from "Claiming an idle address" to its end.
try_address_claim_rest(d, name, address) ==
  IF address > J1939_MAX_UNICAST_ADDR
    THEN [net |-> Net([d.na EXCEPT ![name] = J1939_IDLE_ADDR], d.an), ret |-> TRUE]
  ELSE IF d.an[address] = NoName
    THEN [net |-> Net([d.na EXCEPT ![name] = address], [d.an EXCEPT ![address] = name]),
          ret |-> TRUE]
  ELSE IF has_priority_over(name, d.an[address])
    THEN [net |-> Net([d.na EXCEPT ![d.an[address]] = J1939_IDLE_ADDR, ![name] = address],
                      [d.an EXCEPT ![address] = name]),
          ret |-> TRUE]
  ELSE [net |-> d, ret |-> FALSE]

\* network::release(name) up to the write of name_address_map_; tmp is the local `address`.
release_first(d, name) ==
  IF d.na[name] = NotIn THEN [net |-> d, returned |-> TRUE, tmp |-> NotIn]
  ELSE [net |-> Net([d.na EXCEPT ![name] = J1939_IDLE_ADDR], d.an),
        returned |-> FALSE, tmp |-> d.na[name]]

\* network::erase(name) up to name_address_map_.erase(name).
erase_first(d, name) ==
  IF d.na[name] = NotIn THEN [net |-> d, returned |-> TRUE, tmp |-> NotIn]
  ELSE [net |-> Net([d.na EXCEPT ![name] = NotIn], d.an),
        returned |-> FALSE, tmp |-> d.na[name]]

\* The end of release(name) and of erase(name): address_name_map_.erase(address).
erase_address_rest(d, address) == Net(d.na, map_erase(d.an, address))

\* The operations that take std::scoped_lock, and those that take std::shared_lock.
Writers == {"insert", "release", "remove"}

Readers == {"find_address", "find_name", "available", "claimable"}

\* The thread holds network_mtx_.
Holds(t) == threads[t].pc \in {"locked", "half"}

HoldsExclusive(t) == Holds(t) /\ threads[t].op \in Writers

\* std::scoped_lock on a std::shared_mutex: nobody else holds it in any mode.
scoped_lock(t) == \A u \in Threads \ {t} : ~Holds(u)

\* std::shared_lock: no writer holds it.
shared_lock(t) == \A u \in Threads \ {t} : ~HoldsExclusive(u)

\* What a read operation returns on directory d.
read(d, op, name, addr) ==
  CASE op = "find_address" -> get_address(d, name)
    [] op = "find_name" -> find_name(d, addr)
    [] op = "available" -> IF available(d, addr) THEN 1 ELSE 0
    [] op = "claimable" -> IF claimable(d, addr, name) THEN 1 ELSE 0

\* The addresses the threads insert at and ask about.
ThreadAddresses == Unicast \cup {J1939_IDLE_ADDR}

\* The NAMEs the threads work on: two of different priority.
ThreadNames == {0, 1}

Calls ==
  {[op |-> "insert", name |-> n, addr |-> a] : n \in ThreadNames, a \in ThreadAddresses}
  \cup {[op |-> o, name |-> n, addr |-> NotIn] :
          o \in {"release", "remove", "find_address"}, n \in ThreadNames}
  \cup {[op |-> o, name |-> NoName, addr |-> a] : o \in {"find_name", "available"}, a \in Unicast}
  \cup {[op |-> "claimable", name |-> n, addr |-> a] : n \in ThreadNames, a \in Unicast}

\* A thread calls an operation and comes to its lock.
ThreadCall(t, c) ==
  /\ threads[t].pc = "idle"
  /\ threads' = [threads EXCEPT ![t] = [NoCall EXCEPT !.pc = "waiting", !.op = c.op,
                                                        !.name = c.name, !.addr = c.addr]]
  /\ UNCHANGED <<netvars, smvars, last, sessions_, wire, transfer, conn, pair>>

\* The constructor of the lock returns.
ThreadLock(t) ==
  /\ threads[t].pc = "waiting"
  /\ IF threads[t].op \in Writers THEN scoped_lock(t) ELSE shared_lock(t)
  /\ threads' = [threads EXCEPT ![t].pc = "locked", ![t].d0 = net]
  /\ UNCHANGED <<netvars, smvars, last, sessions_, wire, transfer, conn, pair>>

\* A writer runs the first statements of its body.
ThreadFirst(t) ==
  LET c == threads[t]
      r == CASE c.op = "insert" -> try_address_claim_first(net, c.name, c.addr)
             [] c.op = "release" -> release_first(net, c.name)
             [] c.op = "remove" -> erase_first(net, c.name)
  IN
  /\ c.pc = "locked"
  /\ c.op \in Writers
  /\ name_address_map_' = r.net.na
  /\ address_name_map_' = r.net.an
  /\ threads' = [threads EXCEPT ![t].pc = "half", ![t].returned = r.returned,
                                ![t].tmp = r.tmp]
  /\ UNCHANGED <<smvars, last, sessions_, wire, transfer, conn, pair>>

\* The operation runs to its return statement, the lock is released with it.
ThreadReturn(t) ==
  LET c == threads[t]
      r == CASE c.op \in Readers ->
                  [net |-> net, ret |-> read(net, c.op, c.name, c.addr)]
             [] c.op = "insert" ->
                  IF c.returned THEN [net |-> net, ret |-> 1]
                  ELSE LET e == try_address_claim_rest(net, c.name, c.addr)
                       IN  [net |-> e.net, ret |-> IF e.ret THEN 1 ELSE 0]
             [] OTHER ->
                  [net |-> IF c.returned THEN net ELSE erase_address_rest(net, c.tmp),
                   ret |-> NotIn]
  IN
  /\ IF c.op \in Writers THEN c.pc = "half" ELSE c.pc = "locked"
  /\ name_address_map_' = r.net.na
  /\ address_name_map_' = r.net.an
  /\ threads' = [threads EXCEPT ![t] = NoCall]
  /\ last' = [op |-> "return", ret |-> r.ret]
  /\ UNCHANGED <<smvars, sessions_, wire, transfer, conn, pair>>

NextThreads ==
  \/ \E t \in Threads, c \in Calls : ThreadCall(t, c)
  \/ \E t \in Threads : ThreadLock(t)
  \/ \E t \in Threads : ThreadFirst(t)
  \/ \E t \in Threads : ThreadReturn(t)

SpecThreads == InitNetwork /\ [][NextThreads]_vars

\* The two maps of directory d agree.
MapsAgree(d) ==
  /\ \A n \in Names : d.na[n] \in Unicast => d.an[d.na[n]] = n
  /\ \A a \in Unicast : d.an[a] # NoName => d.na[d.an[a]] = a

\* Thread t returns from its operation in this step.
Returns(t) == Holds(t) /\ threads'[t].pc = "idle"

\* The whole effect and the result of the operation t returns from are those of the
\* operation run alone on the directory t found when it took the lock.
AtomicEffect(t) ==
  LET c == threads[t] IN
  CASE c.op = "insert" ->
         LET r == try_address_claim(c.d0, c.name, c.addr)
         IN  net' = r.net /\ last'.ret = (IF r.ret THEN 1 ELSE 0)
    [] c.op = "release" -> net' = release(c.d0, c.name)
    [] c.op = "remove" -> net' = erase(c.d0, c.name)
    [] OTHER -> net' = c.d0 /\ last'.ret = read(c.d0, c.op, c.name, c.addr)

Linearisable == [][\A t \in Threads : Returns(t) => AtomicEffect(t)]_vars

\* A thread is inside a read operation, under the shared lock.
Reading(t) == threads[t].pc = "locked" /\ threads[t].op \in Readers

\* C24: with several threads calling insert, release, remove and the read operations,
\* every operation takes effect as if run alone at one point between its call and its
\* return, and no thread inside a read operation finds the NAME-to-address map and the
\* address-to-NAME map in disagreement.
C24_LinearisableAgreeing ==
  [][/\ \A t \in Threads : Returns(t) => AtomicEffect(t)
     /\ \A t \in Threads : Reading(t)' => MapsAgree(net)']_vars

\* ------------------------------------------------ claimer claims, continued

\* The step runs the completion handler of the claim timer.
TimeoutStep == last'.op = "run" /\ last'.h[1] = "on_claim_timout"

\* C25: a Timeout in Claiming{c} always leaves Claiming: to Has-Address{c} when c is
\* claimable by the local NAME or the local NAME holds a unicast address in the
\* directory, to No-Address in every other case, the local NAME being absent from the
\* directory included.
C25_TimeoutLeavesClaiming ==
  [][(TimeoutStep /\ state = "st_claiming") =>
       IF claimable(net, claiming, name_) \/ name_address_map_[name_] \in Unicast
         THEN state' = "st_has_address" /\ has_address' = claiming
         ELSE state' = "st_no_address"]_vars

\* The step processes an ev_address_request.
RequestStep ==
  /\ last'.op = "run"
  /\ last'.h[1] = "post"
  /\ last'.h[2][1] = "ev_address_request"

\* The callbacks are given one address claim for address a and nothing else.
AnsweredWithClaim(a) ==
  /\ out' = << <<"on_frame", make_address_claim(name_, a)>> >>
  /\ timer' = timer
  /\ queue' = Tail(queue)

\* One cannot-claim is handed over to go out after its random delay; a wait that was
\* pending is cancelled by it.
AnsweredWithCannotClaim ==
  /\ out' = <<>>
  /\ timer' = "on_random_timeout"
  /\ queue' = IF timer = "none" THEN Tail(queue) ELSE Append(Tail(queue), <<timer, TRUE>>)

Unanswered == out' = <<>> /\ timer' = timer /\ queue' = Tail(queue)

\* C26: an AddressRequest never changes the arbitration state.  In Has-Address{a} or
\* Claiming{a} it is answered with one address claim for a when its destination is a or
\* global, in No-Address or Address-Lost with one cannot-claim when it is global, and
\* with nothing in every other case.
C26_RequestAnswer ==
  [][RequestStep =>
       LET destination == last'.h[2][2]
           global == destination = J1939_NO_ADDR
       IN  /\ state' = state /\ claiming' = claiming /\ has_address' = has_address
           /\ UNCHANGED netvars
           /\ CASE state = "st_has_address" ->
                     IF destination = has_address \/ global
                       THEN AnsweredWithClaim(has_address) ELSE Unanswered
                [] state = "st_claiming" ->
                     IF destination = claiming \/ global
                       THEN AnsweredWithClaim(claiming) ELSE Unanswered
                [] OTHER -> IF global THEN AnsweredWithCannotClaim ELSE Unanswered]_vars

\* A request for another address than the candidate has been left unanswered in Claiming.
C26_Witness ==
  /\ last.op = "run"
  /\ last.h = <<"post", <<"ev_address_request", 0>> >>
  /\ last.from = "st_claiming"
  /\ state = "st_claiming"
  /\ claiming = 1
  /\ out = <<>>

\* The claimer with its scheduling: a wait of timeout_timer_ that is pending completes,
\* and io_context::run runs every handler that is queued.
SpecLive == Spec /\ WF_vars(TimerExpire) /\ WF_vars(RunHandler)

\* C27: a self-configurable NAME that has entered Address-Lost leaves it again, for
\* Claiming or for No-Address, once the delay of its cannot-claim has run out.
C27_LeavesAddressLost ==
  (state = "st_address_lost" /\ self_config_address(name_) = 1)
    ~> (state # "st_address_lost")

\* The step runs the handler of a claim-timer wait that was cancelled or superseded.
AbortedTimeoutStep == TimeoutStep /\ last'.h[2]

\* C28: a wait of the claim timer that was cancelled, or superseded by re-arming, gives
\* the machine no Timeout and reports no error: its handler leaves the state, the
\* candidate, the claimed address, the directory and the timer as they are and gives
\* nothing to the callbacks, so Claiming is never left for Has-Address by it.
C28_AbortedWaitIsSilent ==
  [][AbortedTimeoutStep =>
       /\ state' = state /\ claiming' = claiming /\ has_address' = has_address
       /\ UNCHANGED netvars
       /\ timer' = timer
       /\ out' = <<>>]_vars

\* ---------------------------------------------- transport claims, continued

\* The TP.DT frames a call handed to the bus, in order.
DTsOf(o) == SelectSeq(o, LAMBDA ev : ev[1] = "send" /\ IsDT(ev[2]))

\* The step handles a CTS of the peer while the Tx session of the transfer to it is open.
CtsStep ==
  /\ last'.op = "on_can_frame"
  /\ IsCM(last'.fr, CTS)
  /\ last'.fr.sa = Peer
  /\ sessions_["A"][TxKey].dir = "Tx"

\* C29: on a CTS(n, next_seq) for an open Tx session the sender gives the bus the TP.DT
\* numbered next_seq, next_seq + 1, .. in order, starting at the number the CTS names,
\* at most n of them and none beyond total_packets.
C29_CtsNamesStart ==
  [][CtsStep =>
       LET n == last'.fr.payload[2]
           next_seq == last'.fr.payload[3]
           dts == DTsOf(out')
       IN  /\ Len(dts) <= n
           /\ \A j \in 1 .. Len(dts) :
                /\ dts[j][2].payload[1] = next_seq + j - 1
                /\ dts[j][2].payload[1] <= sessions_["A"][TxKey].total_packets]_vars

\* Every TP.DT handed to the bus in o is numbered within 1 .. total.
NumberedWithin(o, total) ==
  \A i \in 1 .. Len(o) :
    (o[i][1] = "send" /\ IsDT(o[i][2])) => o[i][2].payload[1] \in 1 .. total

\* C30: for every payload length and every sequence of CTS frames, each TP.DT the sender
\* emits is numbered within 1 .. total_packets and next_seq of every Tx session stays
\* within 1 .. total_packets + 1, a transfer of the most packets the counter can count
\* included.
C30_SequenceInRange ==
  [][/\ (last'.op = "send" /\ Len(last'.data) \in (SingleFrameMax + 1) .. MaxPayload)
          => NumberedWithin(out', Packets(Len(last'.data)))
     /\ CtsStep => NumberedWithin(out', sessions_["A"][TxKey].total_packets)
     /\ \A key \in Keys :
          sessions_'["A"][key].dir = "Tx" =>
            sessions_'["A"][key].next_seq \in 1 .. (sessions_'["A"][key].total_packets + 1)]_vars

\* The packet count of session s is the one its length needs.
PacketsMatchLength(s) ==
  /\ s.total_packets * PacketBytes >= s.length
  /\ s.length > (s.total_packets - 1) * PacketBytes

\* The step accepts a TP.DT for the session under key.
AcceptedDtStep(key) ==
  /\ last'.op = "on_can_frame"
  /\ IsDT(last'.fr)
  /\ key = make_key(last'.fr.sa, last'.fr.ps)
  /\ sessions_["A"][key] # NoSession
  /\ last'.fr.payload[1] \in 1 .. sessions_["A"][key].total_packets

\* C31: every session in the table, made by a local send or by a received RTS or BAM
\* with any length and packet count, has total_packets * 7 >= length > (total_packets - 1) * 7,
\* and the offset (seq - 1) * 7 of every TP.DT that is accepted lies inside its buffer.
C31_PacketsCoverLength ==
  [][/\ \A key \in Keys :
          sessions_'["A"][key] # NoSession => PacketsMatchLength(sessions_'["A"][key])
     /\ \A key \in Keys :
          AcceptedDtStep(key) =>
            (last'.fr.payload[1] - 1) * PacketBytes < Len(sessions_["A"][key].buffer)]_vars

\* The key of the reception of the peer's transfer to the local node.
RxKey == make_key(Peer, Local)

\* C32: an ABORT from the peer, received while the Rx session of its transfer to the
\* local node is open, destroys that session and reports an error; with the session
\* gone, a TP.DT of the peer that comes later delivers nothing.
C32_RemoteAbortEndsReception ==
  [][/\ (last'.op = "on_can_frame" /\ last'.fr = PeerABORT /\ sessions_["A"][RxKey].dir = "Rx")
          => /\ sessions_'["A"][RxKey] = NoSession
             /\ HasError(out')
     /\ (/\ last'.op = "on_can_frame"
         /\ IsDT(last'.fr)
         /\ RxKey = make_key(last'.fr.sa, last'.fr.ps)
         /\ sessions_["A"][RxKey] = NoSession) => out' = <<>>]_vars

\* The CTS frames a call handed to the bus, in order.
CTSsOf(o) == SelectSeq(o, LAMBDA ev : ev[1] = "send" /\ IsCM(ev[2], CTS))

\* The step handles an RTS of the peer addressed to the local node.
RtsStep ==
  /\ last'.op = "on_can_frame"
  /\ IsCM(last'.fr, RTS)
  /\ last'.fr.ps = Local

\* C33: in an RTS/CTS reception with window w the CTS that answers the RTS names
\* sequence 1; after the TP.DT numbered k*w < total_packets the receiver emits one CTS
\* that names k*w + 1; on the TP.DT numbered total_packets it emits EOM_ACK, delivers the
\* payload and destroys the session.
C33_WindowedReception ==
  [][/\ RtsStep =>
          /\ Len(CTSsOf(out')) = 1
          /\ CTSsOf(out')[1][2].payload[3] = 1
     /\ (AcceptedDtStep(RxKey) /\ ~sessions_["A"][RxKey].bam) =>
          LET s == sessions_["A"][RxKey]
              seq == last'.fr.payload[1]
          IN  IF seq = s.total_packets
                THEN /\ SentCM(out', EOM)
                     /\ \E i \in 1 .. Len(out') : out'[i][1] = "on_data"
                     /\ sessions_'["A"][RxKey] = NoSession
              ELSE (seq % s.window_size = 0) =>
                     /\ Len(CTSsOf(out')) = 1
                     /\ CTSsOf(out')[1][2].payload[3] = seq + 1]_vars

\* ------------------------------------------------ claimer claims, concluded

\* The step runs an event through the state machine.
MachineStep == last'.op = "run" /\ last'.h[1] \in {"post", "on_claim_timout"}

\* C34: every address claim the machine emits carries an address in 0 .. 253, and the
\* candidate held in Claiming is never 254 or 255, whatever the directory holds and
\* whatever events came; SA 254 is left to the cannot-claim frames.
C34_ClaimsAreUnicast ==
  [][/\ MachineStep =>
          \A i \in 1 .. Len(out') :
            (out'[i][1] = "on_frame" /\ out'[i][2].pf = "PF_ADDRESS_CLAIM")
              => out'[i][2].sa \in Unicast
     /\ state' = "st_claiming" => claiming' \in Unicast]_vars

\* How often callback cb was called in o.
Calls_(o, cb) == Len(SelectSeq(o, LAMBDA ev : ev[1] = cb))

\* C35: on_address fires once on each entry to Has-Address and at no other step,
\* on_lose_address once on each exit from it and at no other step; the two therefore
\* alternate, on_address first, and defending the address or answering a request fires
\* neither.
C35_GainLossAlternate ==
  [][/\ Calls_(out', "on_address")
          = (IF state # "st_has_address" /\ state' = "st_has_address" THEN 1 ELSE 0)
     /\ Calls_(out', "on_lose_address")
          = (IF state = "st_has_address" /\ state' # "st_has_address" THEN 1 ELSE 0)]_vars

\* The address has just been lost to a claim, and on_lose_address was called for it.
C35_Witness ==
  /\ last.op = "run"
  /\ last.from = "st_has_address"
  /\ state # "st_has_address"
  /\ Calls_(out, "on_lose_address") = 1

\* C36: whenever the claimer is in Has-Address{a} and every event posted to it has been
\* processed, the directory maps its NAME to a and a to its NAME, whatever claim frames
\* of other NAMEs were received.
C36_HeldAddressInDirectory ==
  (state = "st_has_address" /\ queue = <<>>) =>
    /\ has_address \in Unicast
    /\ name_address_map_[name_] = has_address
    /\ address_name_map_[has_address] = name_

\* C38: a NAME whose self-configurable bit is clear and that is in Address-Lost stays
\* there: no start_address_claim, no received claim or request and no timeout moves it
\* to another state, also once addresses have become free in the directory.
C38_LostForGood ==
  [][(state = "st_address_lost" /\ self_config_address(name_) = 0)
       => state' = "st_address_lost"]_vars

\* An address claim has been run in Address-Lost with a free address in the directory.
C38_Witness ==
  /\ self_config_address(name_) = 0
  /\ state = "st_address_lost"
  /\ last.op = "run"
  /\ last.from = "st_address_lost"
  /\ last.h[1] = "post"
  /\ last.h[2][1] = "ev_address_claim"
  /\ \E a \in Unicast : address_name_map_[a] = NoName

\* ---------------------------------------------- transport claims, concluded

\* The step is a call into the transport protocol of the local node.
EngineStep == last'.op \in {"send", "on_can_frame", "tick"}

\* C39: every frame the engine hands to the bus, for Tx and Rx sessions alike, has the
\* local address as SA and the address of the peer, or 0xFF, as PS; none has SA 0xFF
\* or the SA of the peer.
C39_FramesFromLocal ==
  [][EngineStep =>
       \A i \in 1 .. Len(out') :
         out'[i][1] = "send" =>
           /\ out'[i][2].sa = Local
           /\ out'[i][2].ps \in {Peer, J1939_NO_ADDR}]_vars

\* The lengths and the frames of the peer followed to the end of their sessions: a
\* transfer of two packets and one of the most packets, by RTS/CTS and by BAM, an RTS
\* whose packet count is not that of its length, every answer of the peer and every TP.DT.
LiveLengths == {SingleFrameMax + 1, MaxPayload}

LiveFrames ==
  {PeerRTS(MaxPayload, 1, Pgn(FALSE), Local), PeerBAM(MaxPayload, Pgn(FALSE)),
   PeerRTSOf(SingleFrameMax + 1, MaxPackets, UInt8Max),
   PeerCTS(1, 1), PeerCTS(UInt8Max, 1), PeerEOM, PeerABORT}
  \cup {PeerDT(seq, ps) : seq \in 1 .. MaxPackets, ps \in {Local, J1939_NO_ADDR}}

\* The bus takes every frame of a call, or refuses the first one.
LiveBus(sends) == IF sends = 0 THEN {<<>>} ELSE {<<>>, <<FALSE>>}

NextTPLive ==
  \/ \E len \in LiveLengths, dest \in {Peer, J1939_NO_ADDR} :
       \E bus \in LiveBus(SendsOf(len, dest)) :
         TpSend(Data(len, FALSE), dest, Pgn(FALSE), bus)
  \/ \E fr \in LiveFrames : \E bus \in LiveBus(SendsOn(fr)) : TpRecv(fr, bus, 0)
  \/ \E bus \in LiveBus(MaxSessions) : TpTick(bus)
  \/ TpAdvance

\* The transport protocol with its scheduling: the main loop keeps calling tick and the
\* clock keeps moving.
SpecTPLive ==
  /\ InitTP
  /\ [][NextTPLive]_vars
  /\ WF_vars(\E bus \in LiveBus(MaxSessions) : TpTick(bus))
  /\ WF_vars(TpAdvance)

\* A send or a received frame has just set the last_activity of the session of the key.
Active(key) ==
  /\ last.op \in {"send", "on_can_frame"}
  /\ sessions_["A"][key] # NoSession
  /\ sessions_["A"][key].age = 0

\* C40: with tick being called and time advancing, a session that is in the table and
\* for which no more frames come is removed from it: no session stays for ever.
C40_SessionsEnd ==
  \A key \in Keys : []<>(sessions_["A"][key] = NoSession \/ Active(key))

\* The reception of the peer's transfer has been ended by tick, after T2 without a frame.
C40_Witness ==
  /\ last.op = "tick"
  /\ sessions_["A"] = NoSessions
  /\ \E i \in 1 .. Len(out) :
       out[i][1] = "send" /\ IsCM(out[i][2], ABORT) /\ out[i][2].ps = Peer


\* ------------------------------------------ two claimers on one directory

\* The two address_managers constructed on one network: the first is the claimer of the
\* variables name_ .. timer, the second is pair.other.
Claimers == {1, 2}

\* An address_manager after construction.
Claimer(name) ==
  [name |-> name, state |-> "st_no_address", claiming |-> J1939_NO_ADDR,
   has_address |-> J1939_NO_ADDR, timer |-> "none", queue |-> <<>>]

\* Most handlers on one strand, and most claim frames of one claimer not yet delivered.
PairQueue == MaxQueue + 1

OtherClaimer(i) == IF i = 1 THEN 2 ELSE 1

\* The machine of a claimer with the directory both share.
MachineOf(i) ==
  IF i = 1 THEN Machine
  ELSE [name |-> pair.other.name, state |-> pair.other.state,
        claiming |-> pair.other.claiming, has_address |-> pair.other.has_address,
        net |-> net, timer |-> pair.other.timer, queue |-> pair.other.queue, out |-> <<>>]

\* The claim frames among what a step gave to on_frame, in order.
RECURSIVE ClaimFrames(_)
ClaimFrames(o) ==
  IF o = <<>> THEN <<>>
  ELSE IF Head(o)[1] = "on_frame" /\ Head(o)[2].pf = "PF_ADDRESS_CLAIM"
    THEN <<Head(o)[2]>> \o ClaimFrames(Tail(o))
  ELSE ClaimFrames(Tail(o))

\* The step of claimer i ends: its state, the shared directory, and its frames on the bus.
CommitOf(i, m) ==
  /\ name_address_map_' = m.net.na
  /\ address_name_map_' = m.net.an
  /\ out' = m.out
  /\ IF i = 1
       THEN /\ state' = m.state
            /\ claiming' = m.claiming
            /\ has_address' = m.has_address
            /\ timer' = m.timer
            /\ queue' = m.queue
            /\ pair' = [pair EXCEPT !.frames[1] = @ \o ClaimFrames(m.out)]
       ELSE /\ pair' = [pair EXCEPT
                          !.other = [name |-> m.name, state |-> m.state,
                                     claiming |-> m.claiming,
                                     has_address |-> m.has_address,
                                     timer |-> m.timer, queue |-> m.queue],
                          !.frames[2] = @ \o ClaimFrames(m.out)]
            /\ UNCHANGED <<state, claiming, has_address, timer, queue>>

pairfixed == <<name_, scen, sessions_, wire, transfer, conn, threads>>

InitPair ==
  /\ name_address_map_ = EmptyNet.na
  /\ address_name_map_ = EmptyNet.an
  /\ name_ \in LocalNames
  /\ state = "st_no_address"
  /\ claiming = J1939_NO_ADDR
  /\ has_address = J1939_NO_ADDR
  /\ queue = <<>>
  /\ timer = "none"
  /\ out = <<>>
  /\ scen = NoScen
  /\ last = NoOp
  /\ sessions_ = [node \in Nodes |-> NoSessions]
  /\ wire = [node \in Nodes |-> <<>>]
  /\ transfer = NoTransfer
  /\ conn = NoConn
  /\ threads = NoThreads
  /\ \E name \in Names \ {name_} :
       pair = [on |-> TRUE, other |-> Claimer(name), frames |-> [i \in Claimers |-> <<>>]]

\* address_manager::start_address_claim of claimer i
PairStart(i, preffered_address) ==
  LET m == MachineOf(i) IN
  /\ Len(m.queue) < PairQueue \/ m.state # "st_no_address"
  /\ CommitOf(i, IF m.state = "st_no_address"
                   THEN [m EXCEPT !.queue = post(@, <<"ev_start_claim", preffered_address>>)]
                   ELSE m)
  /\ last' = [op |-> "start_address_claim", claimer |-> i]
  /\ UNCHANGED pairfixed

\* The oldest claim frame of claimer i reaches the other claimer: network_manager::process
\* (on_frame_address_claim) inserts it in the directory and posts the claim to the other.
PairDeliver(i) ==
  LET m == MachineOf(OtherClaimer(i))
      fr == Head(pair.frames[i])
      in == in_network(net, fr.payload)
      d == try_address_claim(net, fr.payload, fr.sa).net
      claim == <<"ev_address_claim", fr.payload, fr.sa>>
      routed == IF fr.ps < J1939_IDLE_ADDR THEN find_name(d, fr.ps) = m.name ELSE TRUE
      m1 == [m EXCEPT !.net = d,
                      !.queue = IF routed THEN post(@, claim) ELSE @,
                      !.out = IF in THEN <<>>
                              ELSE << <<"on_new_controller", fr.payload, fr.sa>> >>]
  IN  /\ pair.frames[i] # <<>>
      /\ Len(m.queue) < PairQueue
      /\ \E p \in {[pair EXCEPT !.frames[i] = Tail(@)]} :
           /\ name_address_map_' = d.na
           /\ address_name_map_' = d.an
           /\ out' = m1.out
           /\ IF i = 1
                THEN /\ pair' = [p EXCEPT !.other.queue = m1.queue]
                     /\ UNCHANGED queue
                ELSE /\ pair' = p
                     /\ queue' = m1.queue
      /\ last' = [op |-> "process", pf |-> "PF_ADDRESS_CLAIM", name |-> fr.payload,
                   sa |-> fr.sa, claimer |-> OtherClaimer(i),
                   rejected |-> ~try_address_claim(net, fr.payload, fr.sa).ret]
      /\ UNCHANGED <<state, claiming, has_address, timer, pairfixed>>

\* The pending wait of claimer i completes: its handler is queued with no error.
PairExpire(i) ==
  LET m == MachineOf(i) IN
  /\ m.timer # "none"
  /\ CommitOf(i, [m EXCEPT !.queue = Append(@, <<m.timer, FALSE>>), !.timer = "none"])
  /\ last' = [op |-> "expire", claimer |-> i]
  /\ UNCHANGED pairfixed

\* The strand of claimer i runs its oldest handler to completion.
PairRun(i) ==
  LET m == MachineOf(i)
      m1 == run_handler([m EXCEPT !.queue = Tail(@)], Head(m.queue))
  IN  /\ m.queue # <<>>
      /\ Len(pair.frames[i]) + Len(ClaimFrames(m1.out)) <= PairQueue
      /\ CommitOf(i, m1)
      /\ last' = [op |-> "run", h |-> Head(m.queue), from |-> m.state, claimer |-> i]
      /\ UNCHANGED pairfixed

NextPair ==
  \/ \E i \in Claimers, preffered_address \in Unicast : PairStart(i, preffered_address)
  \/ \E i \in Claimers : PairDeliver(i)
  \/ \E i \in Claimers : PairExpire(i)
  \/ \E i \in Claimers : PairRun(i)

SpecPair == InitPair /\ [][NextPair]_vars

\* Both claimers hold the same address.
SameAddress ==
  /\ state = "st_has_address"
  /\ pair.other.state = "st_has_address"
  /\ has_address = pair.other.has_address

\* Every claim frame emitted has been delivered and every handler has run.
AllProcessed ==
  /\ pair.frames = [i \in Claimers |-> <<>>]
  /\ queue = <<>>
  /\ pair.other.queue = <<>>

\* C37 as stated: two claimers for different NAMEs on one directory, each processing
\* every claim frame of the other, are never both in Has-Address with the same address,
\* whatever the order of their start_address_claim calls, the deliveries and the timeouts.
C37_NeverSameAddress == ~SameAddress

\* C37, amended: once every claim frame either claimer emitted has been delivered to the
\* other and every posted handler has run, the two are not both in Has-Address with the
\* same address.
C37_NeverSameAddressOnceProcessed == AllProcessed => ~SameAddress

\* Both claimers have settled in Has-Address, each at the address the directory holds
\* for its NAME, with nothing left to deliver or to run.
C37_Witness ==
  /\ AllProcessed
  /\ last.op = "run"
  /\ state = "st_has_address"
  /\ pair.other.state = "st_has_address"
  /\ has_address # pair.other.has_address
  /\ name_address_map_[name_] = has_address
  /\ name_address_map_[pair.other.name] = pair.other.has_address

====
